---- MODULE Spec2Model ----
(***************************************************************************)
(* The read-tracking / conversation-state subsystem of the messaging       *)
(* application: conversations, participant rows, messages, read receipts   *)
(* and the request handlers of the two view sets                           *)
(*   messaging_app/chats/views.py            (explicit sender checks)      *)
(*   Django-signals_orm-0x04/chats/views.py  (permission classes)          *)
(* over the tables of Django-signals_orm-0x04/messaging/models.py.         *)
(*                                                                         *)
(* The store is the database.  A handler that issues one query and one     *)
(* write with nothing of its own in between is one action; mark_read,      *)
(* mark_all_read and mark_multiple_read read first and write later, so     *)
(* they are split at the point where another request can be served.        *)
(***************************************************************************)
EXTENDS Integers, Sequences, FiniteSets, Bags, TLC

\* ------------------------------------------------------------------ bounds
MaxMsgs == 1
MaxLen == 3

\* The calls the middleware serves, the seconds between two readings of
\* time.time(), and the last reading.
MaxCalls == 6
TickSeconds == 30
MaxClock == 60

\* The largest retries of retry_on_failure.
MaxRetries == 3

\* The calls of the cached functions.
MaxQueries == 3

\* The rows of user_data and the page sizes of lazy_paginate.
MaxRows == 5
MaxPageSize == 3

Users == {"u1", "u2"}
Convs == {"c1", "c2"}
\* Requests that are being served at the same time.
Procs == {"p1", "p2"}

MsgIds == 1 .. MaxMsgs
\* SQL NULL / Python None in a nullable column or an optional input.
NULL == 0 - 1
\* A key that the request data does not hold.
ABSENT == 0 - 2
NoBody == "<absent>"
NoConv == "<none>"
NoUser == "<none>"
GhostUser == "<unknown id>"
NoMsg == 1 - 1

VARIABLES
    signals_connected,  \* messaging/signals.py receivers registered on Message
    now,                \* timezone.now()
    conversations,      \* table conversation: the ids that exist
    participants,       \* table conversation_participant: rows
    messages,           \* table message: rows
    next_message_id,    \* the next fresh message id
    receipts,           \* table message_read_receipt: a bag of rows
    history,            \* table of MessageHistory rows
    notifications,      \* table of Notification rows
    pc,                 \* per request slot: where its handler stands
    req,                \* per request slot: the handler's local variables
    last,               \* the response of the request that finished last
    ghost,              \* what an observer of the requests has noted
    users,              \* table user: the ids that exist
    history_fields,     \* the field names of the MessageHistory model
    cascade,            \* the User.delete() in progress, if any
    access,             \* the call of access_nested_map in progress
    accounts,           \* the user accounts: their roles, and the last answer
    limiter,            \* the request counts of the middleware, and its calls
    retry,              \* the call of a function under retry_on_failure
    cache,              \* query_cache and the calls of the cached functions
    txn,                \* the call of a function under transactional
    pager,              \* the generator of lazy_paginate and its consumer
    ctx                 \* the with-block of a connection context manager

vars == <<signals_connected, now, conversations, participants, messages,
          next_message_id, receipts, history, notifications, pc, req, last,
          ghost, users, history_fields, cascade, access,
          accounts, limiter, retry, cache, txn, pager, ctx>>

\* The state of the programs that stand apart from the messaging tables.
aside == <<accounts, limiter, retry, cache, txn, pager, ctx>>

\* The state of the messaging application.
store == <<signals_connected, now, conversations, participants, messages,
           next_message_id, receipts, history, notifications, pc, req, last,
           ghost, users, history_fields, cascade>>

\* What the deletion of a user reads and writes beyond the tables.
deletion == <<users, history_fields, cascade>>

\* ------------------------------------------------------------ the tables

\* A row that is open, whatever left is.
OpenRow(c, u, left) == [conversation |-> c, user |-> u, left_at |-> NULL]

\* A row of conversation_participant (joined_at is written once and never read).
ParticipantRow(c, u, left) == [conversation |-> c, user |-> u, left_at |-> left]

\* A row of message.
MessageRow(id, c, u, body, edited) ==
    [id |-> id, conversation |-> c, sender |-> u, body |-> body, edited_at |-> edited]

\* A row of message_read_receipt.
ReceiptRow(m, u, t) == [message |-> m, user |-> u, read_at |-> t]

\* Everybody, whatever the rows say.
EveryUser(c) == Users

\* conversation.participants: the many-to-many relation through
\* conversation_participant.  The join does not look at left_at.
ParticipantsOf(c) == {r.user : r \in {x \in participants : x.conversation = c}}

\* No row, whatever the table holds.
NoRows(c, u) == {}

\* ConversationParticipant.objects.filter(conversation, user, left_at__isnull=True)
OpenRows(c, u) ==
    {r \in participants : r.conversation = c /\ r.user = u /\ r.left_at = NULL}

\* Conversation.objects.filter(participants=user)
UserConversations(u) == {c \in conversations : u \in ParticipantsOf(c)}

\* MessageViewSet.get_queryset: messages of the conversations of the user.
VisibleMessages(u) == {m \in messages : m.conversation \in UserConversations(u)}

MessageById(id) == CHOOSE m \in messages : m.id = id

MessageExists(id) == \E m \in messages : m.id = id

\* The receipt rows of a (message, user) pair, with multiplicity.
ReceiptCount(m, u) ==
    LET rows == {r \in BagToSet(receipts) : r.message = m /\ r.user = u}
        RECURSIVE Sum(_)
        Sum(S) == IF S = {} THEN 0
                  ELSE LET r == CHOOSE x \in S : TRUE
                       IN  CopiesIn(r, receipts) + Sum(S \ {r})
    IN  Sum(rows)

\* Whether table content R holds a receipt row of (m, u).
HasReceiptIn(R, m, u) == \E r \in BagToSet(R) : r.message = m /\ r.user = u

\* message.read_receipts.filter(user=user).exists()
HasReceipt(m, u) == HasReceiptIn(receipts, m, u)

\* conversation.messages, without the exclude.
AllMessagesIn(c, u) == {m \in messages : m.conversation = c}

\* conversation.messages.exclude(read_receipts__user=user)
UnreadIn(c, u) == {m \in messages : m.conversation = c /\ ~HasReceipt(m.id, u)}

\* ConversationListSerializer.get_unread_count
get_unread_count(c, u) == Cardinality(UnreadIn(c, u))

\* ConversationViewSet.stats: unread_messages
StatsUnreadMessages(u) ==
    Cardinality({m \in messages : m.conversation \in UserConversations(u)
                                  /\ ~HasReceipt(m.id, u)})

\* ------------------------------------------------- constraints of the tables

\* read_at = DateTimeField(default=timezone.now): the column is NOT NULL.  The
\* default fills the column only when the caller gives no value at all.
ReadAtNotNull(row) == row.read_at # NULL

\* A table without the unique index.
NoUniqueIndex(row) == TRUE

\* unique_together = ['message', 'user'] on message_read_receipt.
ReceiptUnique(row) == ~HasReceipt(row.message, row.user)

\* message = ForeignKey(Message): the referenced row has to exist.
ReceiptMessageExists(row) == MessageExists(row.message)

\* One INSERT statement of receipt rows: every row is stored or, when a row
\* breaks a constraint, the statement raises IntegrityError and stores none.
InsertAccepted(rows) ==
    \A row \in rows :
        ReadAtNotNull(row) /\ ReceiptUnique(row) /\ ReceiptMessageExists(row)

\* The rows written over the rows of their (message, user) pairs.
UpsertReceipts(rows) ==
    [r \in {x \in DOMAIN receipts :
                ~\E y \in rows : y.message = x.message /\ y.user = x.user}
        |-> receipts[r]] (+) SetToBag(rows)

InsertReceipts(rows) ==
    IF InsertAccepted(rows) THEN receipts (+) SetToBag(rows) ELSE receipts

\* No unique index on conversation_participant.
NoParticipantIndex(c, u) == TRUE

\* unique_together = ['conversation', 'user'] on conversation_participant.
ParticipantUnique(c, u) ==
    ~\E r \in participants : r.conversation = c /\ r.user = u

\* -------------------------------------------------- saving a message

\* Message.save: the sender has to be in conversation.participants.
SenderIsParticipant(row) == row.sender \in ParticipantsOf(row.conversation)

\* What Model.save_base passes to the pre_save receivers, besides the signal.
PreSaveKwargs == {"sender", "instance", "raw", "using", "update_fields"}

\* The parameters create_message_history requires (the rest go to **kwargs).
HistoryReceiverParams == {"sender", "instance", "created"}

\* A call binds when every required parameter is passed; otherwise Python
\* raises TypeError before the first line of the receiver runs.
ReceiverCallBinds(required, passed) == required \subseteq passed

\* What Model.save_base passes to the post_save receivers, besides the signal.
PostSaveKwargs == {"sender", "instance", "created", "raw", "using", "update_fields"}

\* The parameters create_notification requires.
NotificationReceiverParams == {"sender", "instance", "created"}

\* The attributes a Message instance has: the fields of the model.
MessageAttributes ==
    {"message_id", "sender", "receiver", "conversation", "content", "timestamp",
     "is_read", "edited_at"}

\* The class User itself, which both receivers pass where a user is meant.
UserClass == "<class User>"

\* What stands in a history row for a value the receiver could not read.
NoAttribute == "<no attribute>"

\* The row create_message_history asks for: action is "created" or, on a save
\* that is no creation, instance.edited.
HistoryRow(row, created) ==
    [object_id |-> row.id,
     action |-> IF created THEN "created"
                ELSE IF "edited" \in MessageAttributes THEN "edited" ELSE NoAttribute,
     current_message |-> row.body,
     edited_by |-> UserClass]

\* The row create_notification asks for.
NotificationRow(row) == [sender |-> UserClass, receiver |-> UserClass]

\* Message.save, up to the INSERT or UPDATE: "ok", or the exception raised by
\* save itself or by the pre_save receiver create_message_history.
SaveOutcome(row, created) ==
    IF ~SenderIsParticipant(row) THEN "ValueError"
    ELSE IF ~signals_connected THEN "ok"
    ELSE IF ~ReceiverCallBinds(HistoryReceiverParams, PreSaveKwargs) THEN "TypeError"
    ELSE IF ~created /\ "edited" \notin MessageAttributes THEN "AttributeError"
    ELSE "ok"

\* A receiver registered on post_save: the row is written before it runs.
MessagesAfterLateFailure(row, outcome) ==
    IF outcome = "ValueError" THEN messages
    ELSE {m \in messages : m.id # row.id} \cup {row}

\* The message table after Message.save: the pre_save receivers run before
\* the INSERT or UPDATE, so an exception of theirs leaves the table as it was.
MessagesAfterSave(row, outcome) ==
    IF outcome = "ok" THEN {m \in messages : m.id # row.id} \cup {row}
    ELSE messages

\* The history table after the pre_save receivers of a save that went through.
HistoryAfterSave(row, created) ==
    IF signals_connected THEN Append(history, HistoryRow(row, created))
    ELSE history

\* The notification table after the post_save receivers of a save that went
\* through: create_notification writes on creation only.
NotificationsAfterSave(row, created) ==
    IF signals_connected
       /\ ReceiverCallBinds(NotificationReceiverParams, PostSaveKwargs)
       /\ created
    THEN Append(notifications, NotificationRow(row))
    ELSE notifications

\* ------------------------------------------- UnreadMessagesManager

\* The keywords of the filter of get_unread_messages and get_unread_count.
UnreadFilter == {"receiver", "unread"}

\* Message.objects.filter(**keywords): a keyword that names no field of the
\* model raises FieldError when the query is built.
FilterResolves(keywords) == keywords \subseteq MessageAttributes

\* UnreadMessagesManager(user).get_unread_messages()
get_unread_messages(u) ==
    IF ~FilterResolves(UnreadFilter)
    THEN [raised |-> "FieldError", rows |-> {}]
    ELSE [raised |-> "none",
          rows |-> {m \in messages : m.receiver = u /\ m.unread}]

\* UnreadMessagesManager(user).get_unread_count(), get_unread_count of the
\* serializer being another function.
manager_get_unread_count(u) ==
    IF ~FilterResolves(UnreadFilter)
    THEN [raised |-> "FieldError", count |-> NULL]
    ELSE [raised |-> "none",
          count |-> Cardinality({m \in messages : m.receiver = u /\ m.unread})]

\* UnreadMessagesManager(user).get_unread_by_conversation(): per conversation
\* id of an unread message, the messages appended and the count incremented
\* with each.
get_unread_by_conversation(u) ==
    LET unread_messages == get_unread_messages(u)
        rows == unread_messages.rows
    IN  IF unread_messages.raised # "none"
        THEN [raised |-> unread_messages.raised, groups |-> <<>>]
        ELSE [raised |-> "none",
              groups |-> [c \in {m.conversation : m \in rows} |->
                            [messages |-> {m \in rows : m.conversation = c},
                             count |-> Cardinality({m \in rows : m.conversation = c})]]]

\* ------------------------------------------------------------ responses

\* What is kept of a response: the handler, the status, and the marked_count
\* of the bulk markers.
MarkResponse(op, status, count) ==
    [op |-> op, status |-> status, marked_count |-> count]

Response(op, status) == MarkResponse(op, status, NULL)

NoResponse == Response("none", "none")

Idle ==
    [op |-> "none", user |-> NoUser, conversation |-> NoConv, message |-> NoMsg,
     pending |-> {}, to_create |-> {}, user_to_add |-> NoUser]

\* The slots that hold the unread set of a mark_all_read on conversation c.
MarkingAll(c) ==
    {p \in Procs : pc[p] = "mark_all_insert" /\ req[p].conversation = c}

\* ------------------------------------------------------------ the observer

\* read_through: the (conversation, user) pairs of which a mark_all_read has
\*   returned 200 with no message created in the conversation since its query;
\* fresh: the slots whose mark_all_read has seen no message created in its
\*   conversation since its query;
\* repeat: the slots whose mark_all_read made its query while its pair was in
\*   read_through;
\* missed: the (message, user) pairs of messages created while a mark_all_read
\*   of the user on their conversation stood between its query and its insert.
\* repeated: the pairs of which a repeat mark_all_read that stayed fresh has
\*   returned.
NothingNoted ==
    [read_through |-> {}, fresh |-> {}, repeat |-> {}, missed |-> {}, repeated |-> {}]

\* The notes on repeats after a message was created in conversation c.
NotedCreated(c) ==
    [ghost EXCEPT !.read_through = {x \in @ : x[1] # c},
                  !.fresh = @ \ MarkingAll(c)]

\* The notes on missed messages after message id was created in conversation c.
NotedMissed(c, id) ==
    [ghost EXCEPT !.missed = @ \cup {<<id, req[p].user>> : p \in MarkingAll(c)}]

\* The notes after slot p made the query of a mark_all_read(c, u).
NotedQuery(p, u, c) ==
    [ghost EXCEPT !.fresh = @ \cup {p},
                  !.repeat = IF <<c, u>> \in ghost.read_through
                             THEN @ \cup {p} ELSE @ \ {p}]

\* The notes after the mark_all_read of slot p returned with the given status.
NotedReturn(p, status) ==
    LET pair == <<req[p].conversation, req[p].user>>
        through == status = "200" /\ p \in ghost.fresh
    IN  [ghost EXCEPT !.read_through = IF through THEN @ \cup {pair} ELSE @,
                      !.repeated = IF p \in ghost.repeat /\ p \in ghost.fresh
                                   THEN @ \cup {pair} ELSE @,
                      !.fresh = @ \ {p},
                      !.repeat = @ \ {p}]

\* ---------------------------------------------------- access_nested_map

\* The keys and the values of the maps.
Keys == {"a", "b"}
Values == {1, 2}

\* A value that is not a map, and a map: a dict of the items given.
Leaf(n) == [kind |-> "value", val |-> n, items |-> <<>>]
Map(f) == [kind |-> "map", val |-> NULL, items |-> f]

\* The dicts over the keys whose values are taken from the set S.
MapsOver(S) == UNION {{Map(f) : f \in [D -> S]} : D \in SUBSET Keys}

\* The maps of the calls: dicts of values and of dicts of values.
Leaves == {Leaf(n) : n \in Values}
FlatMaps == MapsOver(Leaves)
NestedMaps == MapsOver(Leaves \cup FlatMaps)

\* The paths of the calls: the tuples of at most MaxLen keys.
Paths == UNION {[1 .. n -> Keys] : n \in 0 .. MaxLen}

\* No call is running.
NoAccess ==
    [state |-> "none", nested_map |-> Map(<<>>), path |-> <<>>, pos |-> 1,
     result |-> Map(<<>>)]

\* result[key] did not raise.
Subscriptable(result, key) == result.kind = "map" /\ key \in DOMAIN result.items

\* The exception of result[key]: a dict without the key raises KeyError, a
\* value that is no dict raises TypeError.
SubscriptError(result, key) ==
    IF result.kind = "map" THEN "KeyError" ELSE "TypeError"

\* The object subscripted, whatever the key.
Unsubscripted(result, key) == result

\* result[key]
Subscript(result, key) == result.items[key]

\* One pass of the loop of access_nested_map: result = result[key], or the
\* exception that leaves the function.
AccessStep ==
    /\ access.state = "running"
    /\ access.pos <= Len(access.path)
    /\ LET key == access.path[access.pos]
       IN  access' =
               IF Subscriptable(access.result, key)
               THEN [access EXCEPT !.result = Subscript(@, key), !.pos = @ + 1]
               ELSE [access EXCEPT !.state = SubscriptError(access.result, key)]
    /\ UNCHANGED <<signals_connected, now, conversations, participants, messages,
                   next_message_id, receipts, history, notifications, pc, req, last,
                   ghost, deletion, aside>>

\* The loop is through: return result.
AccessReturn ==
    /\ access.state = "running"
    /\ access.pos > Len(access.path)
    /\ access' = [access EXCEPT !.state = "returned"]
    /\ UNCHANGED <<signals_connected, now, conversations, participants, messages,
                   next_message_id, receipts, history, notifications, pc, req, last,
                   ghost, deletion, aside>>

\* ------------------------------------------------------ deleting a user

\* The keyword arguments of MessageHistory.objects.create.
HistoryCreateFields == {"model_name", "object_id", "action", "current_message", "edited_by"}

\* The content of the tables.
Tables ==
    [users |-> users, conversations |-> conversations, participants |-> participants,
     messages |-> messages, receipts |-> receipts, history |-> history,
     notifications |-> notifications]

\* No snapshot: nothing is being deleted.
NoTables ==
    [users |-> {}, conversations |-> {}, participants |-> {}, messages |-> {},
     receipts |-> EmptyBag, history |-> <<>>, notifications |-> <<>>]

\* The statements with the emptiness test ahead of the participant rows.
PruneFirst ==
    <<"messages_sent", "messages_received", "notifications_received",
      "notifications_sent", "receipts", "prune", "memberships", "history">>

\* The statements of clean_user_resources, in the order of the source.
ReceiverSteps ==
    <<"messages_sent", "messages_received", "notifications_received",
      "notifications_sent", "receipts", "memberships", "prune", "history">>

\* No User.delete() is running.
NoCascade ==
    [pc |-> "idle", user |-> NoUser, stale |-> FALSE, step |-> 1, done |-> {},
     to_check |-> {}, saved |-> NoTables]

\* Message.receiver: neither MessageCreateSerializer nor MessageViewSet.create
\* names a receiver.
ReceiverOf(m) == NoUser

\* The receipt rows of bag B outside the set of rows S.
ReceiptsWithout(B, S) == [r \in (DOMAIN B) \ S |-> B[r]]

\* The rows of sequence q.
SeqRows(q) == {q[i] : i \in DOMAIN q}

\* The sequence q without the rows of the set S.
SeqWithout(q, S) == SelectSeq(q, LAMBDA x : x \notin S)

\* Deleting message rows M: the receipts of the messages go with them
\* (MessageReadReceipt.message, on_delete=CASCADE).
DeleteMessages(db, M) ==
    [db EXCEPT !.messages = @ \ M,
               !.receipts = ReceiptsWithout(@, {r \in DOMAIN @ :
                                                   r.message \in {m.id : m \in M}})]

\* Deleting conversation c: its participant rows and its messages go with it
\* (ConversationParticipant.conversation, Message.conversation, on_delete=CASCADE).
DeleteConversation(db, c) ==
    LET d == DeleteMessages(db, {m \in db.messages : m.conversation = c})
    IN  [d EXCEPT !.conversations = @ \ {c},
                  !.participants = {r \in @ : r.conversation # c}]

\* No message, whoever sent it.
NoMessages(db, u) == {}

\* Message.objects.filter(sender=instance), also the rows Message.sender's
\* on_delete=CASCADE collects.
MessagesSentBy(db, u) == {m \in db.messages : m.sender = u}

\* Message.objects.filter(receiver=instance)
MessagesReceivedBy(db, u) == {m \in db.messages : ReceiverOf(m) = u}

\* The rows the foreign keys to User collect: ConversationParticipant.user
\* and MessageReadReceipt.user.
MembershipsCollected(db, u) == {r \in db.participants : r.user = u}

ReceiptsCollected(db, u) == {r \in DOMAIN db.receipts : r.user = u}

\* Every receipt row, whoever read.
EveryReceipt(db, u) == DOMAIN db.receipts

\* MessageReadReceipt.objects.filter(user=instance)
ReceiptsOf(db, u) == {r \in DOMAIN db.receipts : r.user = u}

\* Every participant row, whoever it names.
EveryMembership(db, u) == db.participants

\* ConversationParticipant.objects.filter(user=instance)
conversation_participants(db, u) == {r \in db.participants : r.user = u}

\* conversation.participants.exists(): the many-to-many join, which does not
\* look at left_at.
ParticipantsExist(db, c) == \E r \in db.participants : r.conversation = c

\* Collector.delete() for a User: the rows whose foreign key to the user is
\* on_delete=CASCADE are deleted with the user's row, before post_delete is sent.
OnDeleteCascade(db, u) ==
    LET d == DeleteMessages(db, MessagesSentBy(db, u) \cup MessagesReceivedBy(db, u))
    IN  [d EXCEPT !.users = @ \ {u},
                  !.participants = @ \ MembershipsCollected(d, u),
                  !.receipts = ReceiptsWithout(@, ReceiptsCollected(d, u))]

\* Whether a statement of clean_user_resources raises: the filter of its last
\* statement names the field user of MessageHistory (FieldError without it).
StepRaises(name) == name = "history" /\ "user" \notin history_fields

\* conversations_to_check after a statement of clean_user_resources.
ToCheckAfter(name, db, u, to_check) ==
    IF name = "memberships"
    THEN {r.conversation : r \in conversation_participants(db, u)}
    ELSE to_check

\* Deleting each conversation of the set S that has no participant left.
RECURSIVE PruneEmpty(_, _)
PruneEmpty(db, S) ==
    IF S = {} THEN db
    ELSE LET c == CHOOSE x \in S : TRUE
         IN  PruneEmpty(IF c \in db.conversations /\ ~ParticipantsExist(db, c)
                        THEN DeleteConversation(db, c) ELSE db,
                        S \ {c})

\* The tables after one statement of clean_user_resources(instance = u).
StepEffect(name, db, u, to_check) ==
    CASE name = "messages_sent" -> DeleteMessages(db, MessagesSentBy(db, u))
      [] name = "messages_received" -> DeleteMessages(db, MessagesReceivedBy(db, u))
      [] name = "notifications_received" ->
             [db EXCEPT !.notifications = SeqWithout(@, {n \in SeqRows(@) : n.receiver = u})]
      [] name = "notifications_sent" ->
             [db EXCEPT !.notifications = SeqWithout(@, {n \in SeqRows(@) : n.sender = u})]
      [] name = "receipts" ->
             [db EXCEPT !.receipts = ReceiptsWithout(@, ReceiptsOf(db, u))]
      [] name = "memberships" ->
             [db EXCEPT !.participants = @ \ conversation_participants(db, u)]
      [] name = "prune" -> PruneEmpty(db, to_check)
      [] name = "history" ->
             [db EXCEPT !.history = SeqWithout(@, {h \in SeqRows(@) : h.edited_by = u})]

\* No transaction: the tables as the statements before the exception left them.
NotRolledBack(saved) == Tables

\* transaction.atomic leaving on an exception: the tables as they were saved.
RolledBack(saved) == saved

\* The tables become db.
SetTables(db) ==
    /\ users' = db.users
    /\ conversations' = db.conversations
    /\ participants' = db.participants
    /\ messages' = db.messages
    /\ receipts' = db.receipts
    /\ history' = db.history
    /\ notifications' = db.notifications

\* User.delete() of a handle on user u, to the sending of post_delete: the
\* transaction opens and the collector deletes the collected rows and the
\* user's row.  The handle may be of a row that is already gone.
DeleteUser(u) ==
    /\ cascade.pc = "idle"
    /\ \A p \in Procs : pc[p] = "idle"
    /\ SetTables(OnDeleteCascade(Tables, u))
    /\ cascade' = [NoCascade EXCEPT !.pc = "post_delete", !.user = u,
                                    !.stale = u \notin users, !.saved = Tables]
    /\ UNCHANGED <<signals_connected, now, next_message_id, pc, req, last, ghost,
                   history_fields, access, aside>>

\* One statement of clean_user_resources, the receiver of post_delete; an
\* exception leaves the receiver, User.delete() and the transaction.
ReceiverStep ==
    /\ cascade.pc = "post_delete"
    /\ signals_connected
    /\ cascade.step <= Len(ReceiverSteps)
    /\ LET name == ReceiverSteps[cascade.step]
           u == cascade.user
       IN  IF StepRaises(name)
           THEN /\ SetTables(RolledBack(cascade.saved))
                /\ cascade' = NoCascade
                /\ last' = Response("delete_user", "500 FieldError")
           ELSE /\ SetTables(StepEffect(name, Tables, u, cascade.to_check))
                /\ cascade' = [cascade EXCEPT
                                  !.step = @ + 1,
                                  !.done = @ \cup {name},
                                  !.to_check = ToCheckAfter(name, Tables, u, @)]
                /\ UNCHANGED last
    /\ UNCHANGED <<signals_connected, now, next_message_id, pc, req, ghost,
                   history_fields, access, aside>>

\* User.delete() returns: the receivers of post_delete are through and the
\* transaction commits.
DeleteReturn ==
    /\ cascade.pc = "post_delete"
    /\ signals_connected => cascade.step > Len(ReceiverSteps)
    /\ cascade' = NoCascade
    /\ last' = Response("delete_user", "204")
    /\ UNCHANGED <<signals_connected, now, conversations, participants, messages,
                   next_message_id, receipts, history, notifications, pc, req, ghost,
                   users, history_fields, access, aside>>

\* ------------------------------------------------------ the user accounts

\* User.ROLE_CHOICES
Roles == {"guest", "host", "admin"}

\* The field role of a request body: left out, a choice, or no choice.
RoleInputs == Roles \cup {"absent", "owner"}

\* The methods of a request on /auth/users/<user_id>/.
Methods == {"GET", "HEAD", "OPTIONS", "PUT", "PATCH", "DELETE"}
SafeMethods == {"GET", "HEAD", "OPTIONS"}

\* The answer to a request on the accounts.
Answer(op, requester, target, status) ==
    [op |-> op, requester |-> requester, target |-> target, status |-> status]
NoAnswer == Answer("none", NoUser, NoUser, "none")

\* Every user holds the default of the field role, and no request was made.
NoAccounts == [role |-> [u \in Users |-> "guest"], last |-> NoAnswer]

\* What a request on the accounts leaves alone besides the tables.
beside_accounts == <<access, limiter, retry, cache, txn, pager, ctx>>

\* The ChoiceField of role accepts the body.
RoleValid(r) == r \in Roles \cup {"absent"}

\* The role of a user created from validated data: the model's default when
\* the body names none.
RoleCreated(r) == IF r = "absent" THEN "guest" ELSE r

\* The role of user u after UserDetailSerializer.update: setattr for every
\* validated field.
RoleUpdated(u, r) == IF r = "absent" THEN accounts.role[u] ELSE r

\* IsAdmin.has_permission
IsAdmin(u) == u \in users /\ accounts.role[u] = "admin"

\* IsAdminOrHost.has_permission
IsAdminOrHost(u) == u \in users /\ accounts.role[u] \in {"admin", "host"}

\* CanManageUsers.has_permission
CanManageUsers(u, method) ==
    /\ u \in users
    /\ \/ accounts.role[u] = "admin"
       \/ accounts.role[u] = "host" /\ method \in SafeMethods

\* CanManageUsers.has_object_permission
CanManageUsersObject(u, method, obj) ==
    \/ obj = u
    \/ accounts.role[u] = "admin"
    \/ accounts.role[u] = "host" /\ method \in SafeMethods

\* UserManagementViewSet.get_queryset
ManagedUsers(u) == IF accounts.role[u] \in {"admin", "host"} THEN users ELSE users \cap {u}

\* RegisterView.create: POST /auth/register/ by anyone, for an email that no
\* user holds; r is the field role of the body.
Register(u, r) ==
    /\ cascade.pc = "idle"
    /\ u \notin users
    /\ IF RoleValid(r)
       THEN /\ users' = users \cup {u}
            /\ accounts' = [accounts EXCEPT !.role[u] = RoleCreated(r),
                                            !.last = Answer("register", u, u, "201")]
       ELSE /\ accounts' = [accounts EXCEPT !.last = Answer("register", u, u, "400")]
            /\ UNCHANGED users
    /\ UNCHANGED <<signals_connected, now, conversations, participants, messages,
                   next_message_id, receipts, history, notifications, pc, req, last,
                   ghost, history_fields, cascade, beside_accounts>>

\* UserProfileView: GET, PUT or PATCH /auth/profile/ by user u; the object is
\* the requester.
UpdateProfile(u, method, r) ==
    /\ cascade.pc = "idle"
    /\ u \in users
    /\ method \in {"GET", "PUT", "PATCH"}
    /\ accounts' =
           IF method = "GET" THEN [accounts EXCEPT !.last = Answer("profile", u, u, "200")]
           ELSE IF ~RoleValid(r) THEN [accounts EXCEPT !.last = Answer("profile", u, u, "400")]
           ELSE [accounts EXCEPT !.role[u] = RoleUpdated(u, r),
                                 !.last = Answer("profile", u, u, "200")]
    /\ UNCHANGED <<store, beside_accounts>>

\* UserManagementViewSet.change_role: POST /auth/users/<target>/change_role/
\* by user u with role new_role in the body.
ChangeRole(u, target, new_role) ==
    /\ cascade.pc = "idle"
    /\ u \in users
    /\ accounts' =
           IF ~IsAdmin(u) THEN [accounts EXCEPT !.last = Answer("change_role", u, target, "403")]
           ELSE IF target \notin ManagedUsers(u)
           THEN [accounts EXCEPT !.last = Answer("change_role", u, target, "404")]
           ELSE IF new_role \notin Roles
           THEN [accounts EXCEPT !.last = Answer("change_role", u, target, "400")]
           ELSE [accounts EXCEPT !.role[target] = new_role,
                                 !.last = Answer("change_role", u, target, "200")]
    /\ UNCHANGED <<store, beside_accounts>>

\* The answer of UserManagementViewSet to a request of user u with the method
\* on the record of target, "pass" when the handler is reached.
ManageDecision(u, method, target) ==
    IF ~CanManageUsers(u, method) THEN "403"
    ELSE IF method = "OPTIONS" THEN "200"
    ELSE IF target \notin ManagedUsers(u) THEN "404"
    ELSE IF ~CanManageUsersObject(u, method, target) THEN "403"
    ELSE "pass"

\* UserManagementViewSet on /auth/users/<target>/: retrieve, update,
\* partial_update, destroy and the methods the framework answers; r is the
\* field role of the body.
ManageUser(u, method, target, r) ==
    /\ cascade.pc = "idle"
    /\ \A p \in Procs : pc[p] = "idle"
    /\ u \in users
    /\ LET decision == ManageDecision(u, method, target)
       IN  IF decision # "pass"
           THEN /\ accounts' = [accounts EXCEPT !.last = Answer(method, u, target, decision)]
                /\ UNCHANGED <<users, conversations, participants, messages, receipts,
                               history, notifications, cascade>>
           ELSE IF method = "DELETE"
           THEN /\ SetTables(OnDeleteCascade(Tables, target))
                /\ cascade' = [NoCascade EXCEPT !.pc = "post_delete", !.user = target,
                                                !.stale = FALSE, !.saved = Tables]
                /\ accounts' = [accounts EXCEPT !.last = Answer(method, u, target, "pass")]
           ELSE /\ accounts' =
                       IF method \in {"PUT", "PATCH"} /\ ~RoleValid(r)
                       THEN [accounts EXCEPT !.last = Answer(method, u, target, "400")]
                       ELSE IF method \in {"PUT", "PATCH"}
                       THEN [accounts EXCEPT !.role[target] = RoleUpdated(target, r),
                                             !.last = Answer(method, u, target, "200")]
                       ELSE [accounts EXCEPT !.last = Answer(method, u, target, "200")]
                /\ UNCHANGED <<users, conversations, participants, messages, receipts,
                               history, notifications, cascade>>
    /\ UNCHANGED <<signals_connected, now, next_message_id, pc, req, last, ghost,
                   history_fields, beside_accounts>>

\* ------------------------------------------- the rate limit middleware

\* OffensiveLanguageMiddleware.__init__
rate_limit == 5
time_window == 60

\* The addresses of the clients.
ClientIps == {"10.0.0.1", "10.0.0.2"}

\* The requests: HTTP_X_FORWARDED_FOR as the list of its entries, REMOTE_ADDR.
Requests ==
    {[forwarded |-> f, remote_addr |-> a] :
        f \in {<<>>} \cup {<<i>> : i \in ClientIps}, a \in ClientIps}

\* get_client_ip
get_client_ip(request) ==
    IF request.forwarded # <<>> THEN request.forwarded[1] ELSE request.remote_addr

\* No call of the middleware in a worker.
NoRateCall == [pc |-> "idle", client_ip |-> "", now |-> 0, current_requests |-> <<>>]

\* An entry of the cache, and the entry of a key never set.
CacheEntry(value, expires) == [value |-> value, expires |-> expires]
NoEntry == CacheEntry(<<>>, 0)

\* Nothing cached, no call running, no request passed on.
NoLimiter ==
    [cache |-> [i \in ClientIps |-> NoEntry],
     clock |-> 0,
     call |-> [p \in Procs |-> NoRateCall],
     served |-> [i \in ClientIps |-> <<>>],
     refused |-> [i \in ClientIps |-> 0],
     calls |-> 0]

\* What the middleware leaves alone.
beside_limiter == <<store, access, accounts, retry, cache, txn, pager, ctx>>

\* cache.get(cache_key, []) at time t
CacheGet(entry, t) == IF t < entry.expires THEN entry.value ELSE <<>>

\* The request times of the list within the time window before t.
WithinWindow(times, t) == SelectSeq(times, LAMBDA req_time : t - req_time < time_window)

\* The middleware to the test of the limit: the cached list is read and
\* filtered, and a client at the limit is answered 429.
RateCheck(p, request) ==
    /\ limiter.call[p].pc = "idle"
    /\ limiter.calls < MaxCalls
    /\ LET client_ip == get_client_ip(request)
           t == limiter.clock
           current_requests == WithinWindow(CacheGet(limiter.cache[client_ip], t), t)
       IN  IF Len(current_requests) >= rate_limit
           THEN limiter' = [limiter EXCEPT !.refused[client_ip] = @ + 1,
                                           !.calls = @ + 1]
           ELSE limiter' = [limiter EXCEPT
                               !.call[p] = [pc |-> "record", client_ip |-> client_ip,
                                            now |-> t,
                                            current_requests |-> current_requests],
                               !.calls = @ + 1]
    /\ UNCHANGED beside_limiter

\* The middleware records the request: the list with now appended replaces
\* the cached one, for time_window seconds.
RateRecord(p) ==
    /\ limiter.call[p].pc = "record"
    /\ LET c == limiter.call[p]
       IN  limiter' = [limiter EXCEPT
                          !.cache[c.client_ip] =
                              CacheEntry(Append(c.current_requests, c.now),
                                         limiter.clock + time_window),
                          !.call[p].pc = "forward"]
    /\ UNCHANGED beside_limiter

\* self.get_response(request): the request reaches the handler behind the
\* middleware, and its response is returned.
RateForward(p) ==
    /\ limiter.call[p].pc = "forward"
    /\ LET c == limiter.call[p]
       IN  limiter' = [limiter EXCEPT
                          !.served[c.client_ip] = Append(@, c.now),
                          !.call[p] = NoRateCall]
    /\ UNCHANGED beside_limiter

\* time.time() advances.
RateTick ==
    /\ limiter.clock + TickSeconds <= MaxClock
    /\ limiter' = [limiter EXCEPT !.clock = @ + TickSeconds]
    /\ UNCHANGED beside_limiter

\* ---------------------------------------------------- retry_on_failure

\* The arguments of the decorator: retries, delay and backoff_factor.
RetriesInputs == (0 - 1) .. MaxRetries
DelayInputs == {1, 2}
BackoffInputs == {1, 2}

\* No call of a decorated function.  Invocations of the wrapped function are
\* numbered from 1; result and the exceptions hold the number of the
\* invocation they come from, NULL for None.
NoRetry ==
    [state |-> "none", retries |-> 0, backoff_factor |-> 1, attempt |-> 0,
     current_delay |-> 0, last_exception |-> NULL, invocations |-> 0,
     slept |-> <<>>, result |-> NULL, exception |-> NULL]

\* What a call of a decorated function leaves alone.
beside_retry == <<store, access, accounts, limiter, cache, txn, pager, ctx>>

\* No attempt counts as the last one.
NeverLast(attempt, retries) == FALSE

\* if attempt == retries
IsLastAttempt(attempt, retries) == attempt = retries

\* One pass of the loop: the wrapped function is invoked; it returns, and the
\* wrapper returns its result, or it raises, and the wrapper raises on the
\* last attempt and goes to sleep otherwise.
RetryAttempt ==
    /\ retry.state = "loop"
    /\ retry.attempt <= retry.retries
    /\ \E succeeded \in BOOLEAN :
           LET n == retry.invocations + 1
           IN  retry' =
                   IF succeeded
                   THEN [retry EXCEPT !.invocations = n, !.result = n,
                                      !.state = "returned"]
                   ELSE IF IsLastAttempt(retry.attempt, retry.retries)
                   THEN [retry EXCEPT !.invocations = n, !.last_exception = n,
                                      !.exception = n, !.state = "raised"]
                   ELSE [retry EXCEPT !.invocations = n, !.last_exception = n,
                                      !.state = "sleep"]
    /\ UNCHANGED beside_retry

\* time.sleep(current_delay), the delay grows, and the loop goes on.
RetrySleep ==
    /\ retry.state = "sleep"
    /\ retry' = [retry EXCEPT !.slept = Append(@, retry.current_delay),
                              !.current_delay = @ * retry.backoff_factor,
                              !.attempt = @ + 1,
                              !.state = "loop"]
    /\ UNCHANGED beside_retry

\* The loop is through without a return: raise last_exception, which is a
\* TypeError when last_exception is None.
RetryExhausted ==
    /\ retry.state = "loop"
    /\ retry.attempt > retry.retries
    /\ retry' = IF retry.last_exception = NULL
                THEN [retry EXCEPT !.state = "raised TypeError"]
                ELSE [retry EXCEPT !.exception = retry.last_exception,
                                   !.state = "raised"]
    /\ UNCHANGED beside_retry

\* --------------------------------------------------------- cache_query

\* The decorated functions of the module, and the argument of
\* cache_query_with_ttl.
CachedFunction == "fetch_users_with_cache"
TtlFunction == "fetch_user_by_id_with_ttl"
ttl_seconds == 60

\* The connections with_db_connection opens, the positional arguments behind
\* the connection, and the keyword arguments as pairs of name and value.
Conns == {"conn1", "conn2"}
PositionalArgs == {<<>>, <<"q1">>}
KeywordArgs == {{}, {<<"limit", 5>>}}

\* The positional arguments with the first one in the key as well.
AllArgs(args) == args

\* cache_args: the positional arguments without the first one.
CacheArgs(args) == IF Len(args) > 1 THEN Tail(args) ELSE <<>>

\* _generate_cache_key: the digest of the JSON text of the function name, of
\* cache_args and of the keyword arguments with their names sorted.
_generate_cache_key(func_name, args, kwargs) ==
    [function |-> func_name, args |-> CacheArgs(args), kwargs |-> kwargs]

\* The outcome of a call of a decorated function.
CallOutcome(function, conn, args, kwargs, state, result) ==
    [function |-> function, conn |-> conn, args |-> args, kwargs |-> kwargs,
     state |-> state, result |-> result]
NoCall == CallOutcome("", "", <<>>, {}, "none", NULL)

\* query_cache = {}, and no call made.  The n-th execution of a wrapped
\* function returns n; stored holds, for the observer, what the executions
\* that returned were called with.
NoCache ==
    [query_cache |-> {}, clock |-> 0, executed |-> 0, calls |-> 0,
     stored |-> {}, returned |-> NoCall]

\* What a call of a cached function leaves alone.
beside_cache == <<store, access, accounts, limiter, retry, txn, pager, ctx>>

\* The entry of the key in query_cache.
CachedKeys == {e.key : e \in cache.query_cache}
CacheEntryOf(key) == CHOOSE e \in cache.query_cache : e.key = key

\* query_cache[cache_key] = {...}
CachePut(key, result, timestamp, function) ==
    {e \in cache.query_cache : e.key # key}
        \cup {[key |-> key, result |-> result, timestamp |-> timestamp,
               function |-> function]}

\* What the observer keeps of an execution that returned.
StoredCall(function, conn, args, kwargs, result, at) ==
    [function |-> function, conn |-> conn, args |-> args, kwargs |-> kwargs,
     result |-> result, at |-> at]

\* A call of a function under cache_query with the connection, the positional
\* arguments behind it and the keyword arguments; succeeds tells whether the
\* wrapped function returns or raises when it is executed.
CallCached(conn, args, kwargs, succeeds) ==
    /\ cache.calls < MaxQueries
    /\ LET cache_key == _generate_cache_key(CachedFunction, <<conn>> \o args, kwargs)
           result == cache.executed + 1
       IN  cache' =
               IF cache_key \in CachedKeys
               THEN [cache EXCEPT
                        !.calls = @ + 1,
                        !.returned = CallOutcome(CachedFunction, conn, args, kwargs, "hit",
                                                 CacheEntryOf(cache_key).result)]
               ELSE IF ~succeeds
               THEN [cache EXCEPT
                        !.calls = @ + 1,
                        !.executed = result,
                        !.returned = CallOutcome(CachedFunction, conn, args, kwargs, "raised",
                                                 NULL)]
               ELSE [cache EXCEPT
                        !.calls = @ + 1,
                        !.executed = result,
                        !.query_cache = CachePut(cache_key, result, cache.clock,
                                                 CachedFunction),
                        !.stored = @ \cup {StoredCall(CachedFunction, conn, args, kwargs,
                                                      result, cache.clock)},
                        !.returned = CallOutcome(CachedFunction, conn, args, kwargs, "miss",
                                                 result)]
    /\ UNCHANGED beside_cache

\* The entry counts as fresh whatever its age.
AlwaysFresh(current_time, timestamp) == TRUE

\* current_time - cache_entry['timestamp'] < ttl_seconds
Fresh(current_time, timestamp) == current_time - timestamp < ttl_seconds

\* A call of a function under cache_query_with_ttl(ttl_seconds).
CallCachedTtl(conn, args, kwargs, succeeds) ==
    /\ cache.calls < MaxQueries
    /\ LET cache_key == _generate_cache_key(TtlFunction, <<conn>> \o args, kwargs)
           current_time == cache.clock
           result == cache.executed + 1
           kept == {e \in cache.query_cache : e.key # cache_key}
       IN  cache' =
               IF cache_key \in CachedKeys
                  /\ Fresh(current_time, CacheEntryOf(cache_key).timestamp)
               THEN [cache EXCEPT
                        !.calls = @ + 1,
                        !.returned = CallOutcome(TtlFunction, conn, args, kwargs, "hit",
                                                 CacheEntryOf(cache_key).result)]
               ELSE IF ~succeeds
               THEN [cache EXCEPT
                        !.calls = @ + 1,
                        !.executed = result,
                        !.query_cache = kept,
                        !.returned = CallOutcome(TtlFunction, conn, args, kwargs, "raised",
                                                 NULL)]
               ELSE [cache EXCEPT
                        !.calls = @ + 1,
                        !.executed = result,
                        !.query_cache = CachePut(cache_key, result, current_time,
                                                 TtlFunction),
                        !.stored = @ \cup {StoredCall(TtlFunction, conn, args, kwargs,
                                                      result, current_time)},
                        !.returned = CallOutcome(TtlFunction, conn, args, kwargs, "miss",
                                                 result)]
    /\ UNCHANGED beside_cache

\* time.time() advances between two calls.
CacheTick ==
    /\ cache.clock + TickSeconds <= MaxClock
    /\ cache' = [cache EXCEPT !.clock = @ + TickSeconds]
    /\ UNCHANGED beside_cache

\* ------------------------------------------------------- transactional

\* The positional arguments of a call of the decorated function: none, the
\* connection, the connection and one more.
TxnArgs == {<<>>, <<"conn">>, <<"conn", "x">>}

\* What the wrapped function writes through the connection before it leaves:
\* nothing (NULL) or a value.
TxnWrites == {NULL, 1, 2}

\* How a call leaves: it returns, or it raises an exception that is an
\* Exception, or one that is not (KeyboardInterrupt, SystemExit).
Leavings == {"returns", "Exception", "BaseException"}

\* No call: nothing is planned and nothing was done.  data is the committed
\* content of the database, pending the content written and not yet
\* committed (NULL: none).
NoTxn ==
    [state |-> "none", args |-> <<>>, writes |-> NULL, func |-> "returns",
     commit |-> "returns", rollback |-> "returns",
     invoked |-> 0, commits |-> 0, rollbacks |-> 0, data |-> 0, pending |-> NULL,
     outcome |-> "none", raised_by |-> "none"]

\* What a call of a function under transactional leaves alone.
beside_txn == <<store, access, accounts, limiter, retry, cache, pager, ctx>>

\* No except clause takes the exception.
CaughtNever(leaves) == FALSE

\* except Exception
CaughtByExcept(leaves) == leaves = "Exception"

\* The wrapper is entered: without positional arguments it raises ValueError,
\* otherwise conn = args[0] and the function is called.
TxnEnter ==
    /\ txn.state = "entered"
    /\ txn' = IF txn.args = <<>>
              THEN [txn EXCEPT !.state = "done", !.outcome = "raised ValueError",
                               !.raised_by = "wrapper"]
              ELSE [txn EXCEPT !.state = "call"]
    /\ UNCHANGED beside_txn

\* result = func(*args, **kwargs)
TxnInvoke ==
    /\ txn.state = "call"
    /\ LET written == IF txn.writes = NULL THEN txn.pending ELSE txn.writes
       IN  txn' =
               IF txn.func = "returns"
               THEN [txn EXCEPT !.invoked = @ + 1, !.pending = written,
                                !.state = "commit"]
               ELSE IF CaughtByExcept(txn.func)
               THEN [txn EXCEPT !.invoked = @ + 1, !.pending = written,
                                !.raised_by = "func", !.state = "rollback"]
               ELSE [txn EXCEPT !.invoked = @ + 1, !.pending = written,
                                !.raised_by = "func", !.state = "done",
                                !.outcome = "raised"]
    /\ UNCHANGED beside_txn

\* conn.commit() inside the try block, then return result.
TxnCommit ==
    /\ txn.state = "commit"
    /\ txn' =
           IF txn.commit = "returns"
           THEN [txn EXCEPT !.commits = @ + 1,
                            !.data = IF txn.pending = NULL THEN @ ELSE txn.pending,
                            !.pending = NULL,
                            !.state = "done", !.outcome = "returned"]
           ELSE IF CaughtByExcept(txn.commit)
           THEN [txn EXCEPT !.commits = @ + 1, !.raised_by = "commit",
                            !.state = "rollback"]
           ELSE [txn EXCEPT !.commits = @ + 1, !.raised_by = "commit",
                            !.state = "done", !.outcome = "raised"]
    /\ UNCHANGED beside_txn

\* conn.rollback() in the except clause, then raise e.
TxnRollback ==
    /\ txn.state = "rollback"
    /\ txn' =
           IF txn.rollback = "returns"
           THEN [txn EXCEPT !.rollbacks = @ + 1, !.pending = NULL,
                            !.state = "done", !.outcome = "raised"]
           ELSE [txn EXCEPT !.rollbacks = @ + 1, !.raised_by = "rollback",
                            !.state = "done", !.outcome = "raised"]
    /\ UNCHANGED beside_txn

\* -------------------------------------------------------- lazy_paginate

\* The table user_data with n rows, in the order of the table.
UserData(n) == [i \in 1 .. n |-> i]

\* No generator.
NoPager ==
    [state |-> "none", page_size |-> 0, user_data |-> <<>>, offset |-> 0,
     asked |-> 0, fetched |-> <<>>, failed |-> FALSE, yielded |-> <<>>,
     rows |-> <<>>]

\* What the generator leaves alone.
beside_pager == <<store, access, accounts, limiter, retry, cache, txn, ctx>>

\* SELECT ... FROM user_data LIMIT page_size OFFSET offset
SelectPage(user_data, page_size, offset) ==
    SubSeq(user_data, offset + 1,
           IF offset + page_size < Len(user_data) THEN offset + page_size
           ELSE Len(user_data))

\* paginate_users: the rows of the page, or [] when connecting or the query
\* raised.
paginate_users(user_data, page_size, offset, raised) ==
    IF raised THEN <<>> ELSE SelectPage(user_data, page_size, offset)

\* next() on the generator: it runs from where it stands, past
\* offset += page_size when it stands at the yield, to the next yield or to
\* its end.
PagerNext ==
    /\ pager.state \in {"created", "yielded"}
    /\ \E raised \in BOOLEAN :
           LET offset == IF pager.state = "yielded"
                         THEN pager.offset + pager.page_size ELSE pager.offset
               page == paginate_users(pager.user_data, pager.page_size, offset, raised)
           IN  pager' =
                   IF page = <<>>
                   THEN [pager EXCEPT !.asked = @ + 1, !.offset = offset,
                                      !.fetched = Append(@, offset),
                                      !.failed = raised,
                                      !.state = "finished"]
                   ELSE [pager EXCEPT !.asked = @ + 1, !.offset = offset,
                                      !.fetched = Append(@, offset),
                                      !.yielded = Append(@, page),
                                      !.rows = @ \o page,
                                      !.state = "yielded"]
    /\ UNCHANGED beside_pager

\* ------------------------------------- DatabaseConnection, ExecuteQuery

\* The context managers.
Managers == {"DatabaseConnection", "ExecuteQuery"}

\* How a call on the connection or the cursor leaves.
CallLeavings == {"returns", "Exception"}

\* No with statement.  The fields connect to close fix how the calls on
\* sqlite3 will leave, block how the body of the with statement will;
\* propagated names what raised the exception that leaves the with
\* statement.
NoCtx ==
    [state |-> "none", manager |-> "DatabaseConnection", connect |-> "returns",
     execute |-> "returns", block |-> "returns", cursor_close |-> "returns",
     commit |-> "returns", rollback |-> "returns", close |-> "returns",
     connection_open |-> FALSE, cursor_open |-> FALSE, entered |-> FALSE,
     commits |-> 0, rollbacks |-> 0, propagated |-> "none"]

\* What a with statement leaves alone.
beside_ctx == <<store, access, accounts, limiter, retry, cache, txn, pager>>

\* __enter__: sqlite3.connect and connection.cursor(); ExecuteQuery executes
\* its query as well.  An exception leaves __enter__, and then neither the
\* block nor __exit__ runs.
CtxEnter ==
    /\ ctx.state = "with"
    /\ ctx' =
           IF ctx.connect # "returns"
           THEN [ctx EXCEPT !.state = "done", !.propagated = "connect"]
           ELSE IF ctx.manager = "ExecuteQuery" /\ ctx.execute # "returns"
           THEN [ctx EXCEPT !.connection_open = TRUE, !.cursor_open = TRUE,
                            !.state = "done", !.propagated = "execute"]
           ELSE [ctx EXCEPT !.connection_open = TRUE, !.cursor_open = TRUE,
                            !.entered = TRUE, !.state = "block"]
    /\ UNCHANGED beside_ctx

\* The body of the with statement runs and leaves; __exit__ is called with
\* the exception, if any.
CtxBlock ==
    /\ ctx.state = "block"
    /\ ctx' = [ctx EXCEPT !.state = "close_cursor",
                          !.propagated = IF ctx.block = "returns" THEN "none" ELSE "block"]
    /\ UNCHANGED beside_ctx

\* __exit__: if self.cursor: self.cursor.close()
CtxCloseCursor ==
    /\ ctx.state = "close_cursor"
    /\ ctx' =
           IF ctx.cursor_close # "returns"
           THEN [ctx EXCEPT !.state = "done", !.propagated = "cursor.close"]
           ELSE [ctx EXCEPT !.cursor_open = FALSE,
                            !.state = IF ctx.block = "returns" THEN "commit"
                                      ELSE "rollback"]
    /\ UNCHANGED beside_ctx

\* __exit__ with exc_type None: self.connection.commit()
CtxCommit ==
    /\ ctx.state = "commit"
    /\ ctx' =
           IF ctx.commit # "returns"
           THEN [ctx EXCEPT !.commits = @ + 1, !.state = "done",
                            !.propagated = "commit"]
           ELSE [ctx EXCEPT !.commits = @ + 1, !.state = "close_connection"]
    /\ UNCHANGED beside_ctx

\* __exit__ with an exception: self.connection.rollback()
CtxRollback ==
    /\ ctx.state = "rollback"
    /\ ctx' =
           IF ctx.rollback # "returns"
           THEN [ctx EXCEPT !.rollbacks = @ + 1, !.state = "done",
                            !.propagated = "rollback"]
           ELSE [ctx EXCEPT !.rollbacks = @ + 1, !.state = "close_connection"]
    /\ UNCHANGED beside_ctx

\* __exit__: self.connection.close(), then return False: the exception of
\* the block, if any, goes on to the caller.
CtxCloseConnection ==
    /\ ctx.state = "close_connection"
    /\ ctx' =
           IF ctx.close # "returns"
           THEN [ctx EXCEPT !.state = "done", !.propagated = "close"]
           ELSE [ctx EXCEPT !.connection_open = FALSE, !.state = "done"]
    /\ UNCHANGED beside_ctx

\* ------------------------------------------------- the programs at rest


\* None of the programs apart from the messaging application has been called.
AsideIdle ==
    /\ accounts = NoAccounts
    /\ limiter = NoLimiter
    /\ retry = NoRetry
    /\ cache = NoCache
    /\ txn = NoTxn
    /\ pager = NoPager
    /\ ctx = NoCtx

\* ---------------------------------------------------------------- Init

\* An empty database with the users registered and no request in service.
Init ==
    /\ signals_connected \in BOOLEAN
    /\ now = 0
    /\ conversations = {}
    /\ participants = {}
    /\ messages = {}
    /\ next_message_id = 1
    /\ receipts = EmptyBag
    /\ history = <<>>
    /\ notifications = <<>>
    /\ pc = [p \in Procs |-> "idle"]
    /\ req = [p \in Procs |-> Idle]
    /\ last = NoResponse
    /\ ghost = NothingNoted
    /\ users = Users
    /\ history_fields = HistoryCreateFields
    /\ cascade = NoCascade
    /\ access = NoAccess
    /\ AsideIdle

\* The database after two ConversationViewSet.create requests: c1 holds u1 and
\* u2, c2 holds u2 alone.
InitRead ==
    /\ signals_connected \in BOOLEAN
    /\ now = 0
    /\ conversations = {"c1", "c2"}
    /\ participants = {ParticipantRow("c1", "u1", NULL), ParticipantRow("c1", "u2", NULL),
                       ParticipantRow("c2", "u2", NULL)}
    /\ messages = {}
    /\ next_message_id = 1
    /\ receipts = EmptyBag
    /\ history = <<>>
    /\ notifications = <<>>
    /\ pc = [p \in Procs |-> "idle"]
    /\ req = [p \in Procs |-> Idle]
    /\ last = NoResponse
    /\ ghost = NothingNoted
    /\ users = Users
    /\ history_fields = HistoryCreateFields
    /\ cascade = NoCascade
    /\ access = NoAccess
    /\ AsideIdle

\* ------------------------------------------------ ConversationViewSet

\* ConversationViewSet.create with ConversationCreateSerializer: ids are the
\* participant_ids of the request; the requester is added to them.
CreateConversation(u, ids) ==
    /\ conversations # Convs
    /\ LET c == CHOOSE x \in Convs \ conversations : TRUE
           members == ids \cup {u}
       IN  IF ids = {}
           THEN /\ last' = Response("create_conversation", "400")
                /\ UNCHANGED <<conversations, participants>>
           ELSE /\ conversations' = conversations \cup {c}
                /\ participants' =
                       participants \cup {ParticipantRow(c, x, NULL) : x \in members}
                /\ last' = Response("create_conversation", "201")
    /\ UNCHANGED <<signals_connected, now, messages, next_message_id, receipts,
                   history, notifications, pc, req>>

\* ConversationViewSet.leave
Leave(u, c) ==
    /\ IF c \notin UserConversations(u)
       THEN /\ last' = Response("leave", "404")
            /\ UNCHANGED participants
       ELSE IF OpenRows(c, u) = {}
       THEN /\ last' = Response("leave", "400 You are not a participant")
            /\ UNCHANGED participants
       ELSE /\ participants' =
                   (participants \ OpenRows(c, u)) \cup {ParticipantRow(c, u, now)}
            /\ last' = Response("leave", "200")
    /\ UNCHANGED <<signals_connected, now, conversations, messages, next_message_id,
                   receipts, history, notifications, pc, req>>

\* ConversationViewSet.add_participant of messaging_app: user_id is the
\* request's user_id (NoUser: none given; GhostUser: no such user).
AddParticipant(u, c, user_id) ==
    /\ IF c \notin UserConversations(u)
       THEN /\ last' = Response("add_participant", "404")
            /\ UNCHANGED participants
       ELSE IF user_id = NoUser
       THEN /\ last' = Response("add_participant", "400 user_id is required")
            /\ UNCHANGED participants
       ELSE IF user_id \notin Users
       THEN /\ last' = Response("add_participant", "404")
            /\ UNCHANGED participants
       ELSE IF OpenRows(c, user_id) # {}
       THEN /\ last' = Response("add_participant", "400 User is already a participant")
            /\ UNCHANGED participants
       ELSE IF ~ParticipantUnique(c, user_id)
       THEN /\ last' = Response("add_participant", "500 IntegrityError")
            /\ UNCHANGED participants
       ELSE /\ participants' = participants \cup {ParticipantRow(c, user_id, NULL)}
            /\ last' = Response("add_participant", "200")
    /\ UNCHANGED <<signals_connected, now, conversations, messages, next_message_id,
                   receipts, history, notifications, pc, req>>

\* ConversationViewSet.add_participant, to the exists() query: the lookups and
\* the test for an open row of the user to add.
AddParticipantCheck(p, u, c, user_id) ==
    /\ pc[p] = "idle"
    /\ IF c \notin UserConversations(u)
       THEN /\ last' = Response("add_participant", "404")
            /\ UNCHANGED <<pc, req>>
       ELSE IF user_id = NoUser
       THEN /\ last' = Response("add_participant", "400 user_id is required")
            /\ UNCHANGED <<pc, req>>
       ELSE IF user_id \notin Users
       THEN /\ last' = Response("add_participant", "404")
            /\ UNCHANGED <<pc, req>>
       ELSE IF OpenRows(c, user_id) # {}
       THEN /\ last' = Response("add_participant", "400 User is already a participant")
            /\ UNCHANGED <<pc, req>>
       ELSE /\ pc' = [pc EXCEPT ![p] = "add_create"]
            /\ req' = [req EXCEPT ![p] =
                          [Idle EXCEPT !.op = "add_participant", !.user = u,
                                       !.conversation = c, !.user_to_add = user_id]]
            /\ UNCHANGED last
    /\ UNCHANGED <<signals_connected, now, conversations, participants, messages,
                   next_message_id, receipts, history, notifications>>

\* ConversationParticipant.objects.create(conversation, user) of
\* add_participant and its response; the IntegrityError of the unique index is
\* not caught.
AddParticipantCreate(p) ==
    /\ pc[p] = "add_create"
    /\ LET c == req[p].conversation
           x == req[p].user_to_add
       IN  IF ~ParticipantUnique(c, x)
           THEN /\ last' = Response("add_participant", "500 IntegrityError")
                /\ UNCHANGED participants
           ELSE /\ participants' = participants \cup {ParticipantRow(c, x, NULL)}
                /\ last' = Response("add_participant", "200")
    /\ pc' = [pc EXCEPT ![p] = "idle"]
    /\ req' = [req EXCEPT ![p] = Idle]
    /\ UNCHANGED <<signals_connected, now, conversations, messages, next_message_id,
                   receipts, history, notifications>>

\* The positional parameters the view wrapper of cache_page requires, and the
\* arguments get_object passes to the decorated get_queryset.
CachePageParams == {"request"}
GetQuerysetArgs == {}

\* The call of get_queryset of the role-aware ConversationViewSet binds.
GetQuerysetBinds == CachePageParams \subseteq GetQuerysetArgs

\* ConversationViewSet.add_participant of Django-signals_orm-0x04: the
\* conversation is looked up through get_queryset, then the requester has to
\* be a participant or hold the role admin or host.
AddParticipantRoleAware(u, c, user_id) ==
    /\ IF ~GetQuerysetBinds
       THEN /\ last' = Response("add_participant", "500 TypeError")
            /\ UNCHANGED participants
       ELSE IF c \notin UserConversations(u)
       THEN /\ last' = Response("add_participant", "404")
            /\ UNCHANGED participants
       ELSE IF user_id = NoUser
       THEN /\ last' = Response("add_participant", "400 user_id is required")
            /\ UNCHANGED participants
       ELSE IF ~(u \in ParticipantsOf(c) \/ accounts.role[u] \in {"admin", "host"})
       THEN /\ last' = Response("add_participant", "403")
            /\ UNCHANGED participants
       ELSE IF user_id \notin Users
       THEN /\ last' = Response("add_participant", "404")
            /\ UNCHANGED participants
       ELSE IF OpenRows(c, user_id) # {}
       THEN /\ last' = Response("add_participant", "400 User is already a participant")
            /\ UNCHANGED participants
       ELSE IF ~ParticipantUnique(c, user_id)
       THEN /\ last' = Response("add_participant", "500 IntegrityError")
            /\ UNCHANGED participants
       ELSE /\ participants' = participants \cup {ParticipantRow(c, user_id, NULL)}
            /\ last' = Response("add_participant", "200")
    /\ UNCHANGED <<signals_connected, now, conversations, messages, next_message_id,
                   receipts, history, notifications, pc, req>>

\* ---------------------------------------------------- MessageViewSet

\* MessageViewSet.create with MessageCreateSerializer, then Message.save.
SendMessage(u, c, body) ==
    /\ LET row == MessageRow(next_message_id, c, u, body, NULL)
       IN  IF c \notin conversations
           THEN /\ last' = Response("send", "400")
                /\ UNCHANGED <<messages, next_message_id, history, notifications>>
           ELSE IF c \notin UserConversations(u)
           THEN /\ last' = Response("send", "403")
                /\ UNCHANGED <<messages, next_message_id, history, notifications>>
           ELSE LET outcome == SaveOutcome(row, TRUE)
                    ok == outcome = "ok"
                IN  /\ messages' = MessagesAfterSave(row, outcome)
                    /\ next_message_id' =
                           IF row \in messages' THEN next_message_id + 1
                           ELSE next_message_id
                    /\ history' = IF ok THEN HistoryAfterSave(row, TRUE) ELSE history
                    /\ notifications' =
                           IF ok THEN NotificationsAfterSave(row, TRUE) ELSE notifications
                    /\ last' = Response("send", IF ok THEN "201" ELSE "500 " \o outcome)
    /\ UNCHANGED <<signals_connected, now, conversations, participants, receipts,
                   pc, req>>

\* IsMessageSender.has_object_permission
IsMessageSender(method, sender, u) ==
    IF method \in {"GET", "PUT", "PATCH", "HEAD", "OPTIONS"} THEN TRUE
    ELSE sender = u

\* UpdateModelMixin.update with MessageSerializer: message_body and edited_at
\* are writable; PUT requires message_body, PATCH (partial) does not.
PerformUpdate(op, u, id, partial, body, edited_at) ==
    LET old == MessageById(id)
        new == [old EXCEPT !.body = IF body = NoBody THEN @ ELSE body,
                           !.edited_at = IF edited_at = ABSENT THEN @ ELSE edited_at]
    IN  IF ~partial /\ body = NoBody
        THEN /\ last' = Response(op, "400")
             /\ UNCHANGED <<messages, history, notifications>>
        ELSE LET outcome == SaveOutcome(new, FALSE)
                 ok == outcome = "ok"
             IN  /\ messages' = MessagesAfterSave(new, outcome)
                 /\ history' = IF ok THEN HistoryAfterSave(new, FALSE) ELSE history
                 /\ notifications' =
                        IF ok THEN NotificationsAfterSave(new, FALSE) ELSE notifications
                 /\ last' = Response(op, IF ok THEN "200" ELSE "500 " \o outcome)

\* MessageViewSet.update of messaging_app (PUT, and PATCH through
\* partial_update, which calls update).  The edited_at it sets is set on the
\* object it fetched itself; super().update fetches the row again.
Update(u, id, partial, body, edited_at) ==
    /\ IF id \notin {m.id : m \in VisibleMessages(u)}
       THEN /\ last' = Response("update", "404")
            /\ UNCHANGED <<messages, history, notifications>>
       ELSE IF MessageById(id).sender # u
       THEN /\ last' = Response("update", "403")
            /\ UNCHANGED <<messages, history, notifications>>
       ELSE PerformUpdate("update", u, id, partial, body, edited_at)
    /\ UNCHANGED <<signals_connected, now, conversations, participants,
                   next_message_id, receipts, pc, req>>

\* MessageViewSet.update of Django-signals_orm-0x04: get_permissions puts
\* IsMessageSender on update and partial_update; update has no check of its own.
UpdateRoleAware(u, id, partial, body, edited_at) ==
    /\ IF id \notin {m.id : m \in VisibleMessages(u)}
       THEN /\ last' = Response("update_role_aware", "404")
            /\ UNCHANGED <<messages, history, notifications>>
       ELSE IF ~IsMessageSender(IF partial THEN "PATCH" ELSE "PUT",
                                MessageById(id).sender, u)
       THEN /\ last' = Response("update_role_aware", "403")
            /\ UNCHANGED <<messages, history, notifications>>
       ELSE PerformUpdate("update_role_aware", u, id, partial, body, edited_at)
    /\ UNCHANGED <<signals_connected, now, conversations, participants,
                   next_message_id, receipts, pc, req>>

\* DestroyModelMixin.destroy: the row of message id is deleted, and with it
\* the receipts of the message.
PerformDestroy(op, id) ==
    LET db == DeleteMessages(Tables, {MessageById(id)})
    IN  /\ messages' = db.messages
        /\ receipts' = db.receipts
        /\ last' = Response(op, "204")

\* MessageViewSet.destroy of messaging_app (DELETE).
Destroy(u, id) ==
    /\ IF id \notin {m.id : m \in VisibleMessages(u)}
       THEN /\ last' = Response("destroy", "404")
            /\ UNCHANGED <<messages, receipts>>
       ELSE IF MessageById(id).sender # u
       THEN /\ last' = Response("destroy", "403")
            /\ UNCHANGED <<messages, receipts>>
       ELSE PerformDestroy("destroy", id)
    /\ UNCHANGED <<signals_connected, now, conversations, participants,
                   next_message_id, history, notifications, pc, req>>

\* MessageViewSet.destroy of Django-signals_orm-0x04: the inherited destroy
\* behind IsMessageSender, which get_permissions puts on the action.
DestroyRoleAware(u, id) ==
    /\ IF id \notin {m.id : m \in VisibleMessages(u)}
       THEN /\ last' = Response("destroy_role_aware", "404")
            /\ UNCHANGED <<messages, receipts>>
       ELSE IF ~IsMessageSender("DELETE", MessageById(id).sender, u)
       THEN /\ last' = Response("destroy_role_aware", "403")
            /\ UNCHANGED <<messages, receipts>>
       ELSE PerformDestroy("destroy_role_aware", id)
    /\ UNCHANGED <<signals_connected, now, conversations, participants,
                   next_message_id, history, notifications, pc, req>>

\* ConversationViewSet.destroy (DELETE), inherited from ModelViewSet by both
\* view sets: get_object answers 404 outside the user's conversations; the
\* conversation goes with its participant rows and its messages.
DestroyConversation(u, c) ==
    /\ IF c \notin UserConversations(u)
       THEN /\ last' = Response("destroy_conversation", "404")
            /\ UNCHANGED <<conversations, participants, messages, receipts>>
       ELSE LET db == DeleteConversation(Tables, c)
            IN  /\ conversations' = db.conversations
                /\ participants' = db.participants
                /\ messages' = db.messages
                /\ receipts' = db.receipts
                /\ last' = Response("destroy_conversation", "204")
    /\ UNCHANGED <<signals_connected, now, next_message_id, history, notifications,
                   pc, req>>

\* ------------------------------------------------- marking messages read

\* The read_at MessageReadReceiptCreateSerializer.create hands to get_or_create
\* in defaults: validated_data.get('read_at').  The serializer's only field is
\* message, so validated_data never holds read_at and the value is None.
MarkReadDefault == NULL

\* MessageViewSet.mark_read, to the first query of get_or_create: get_object
\* answers 404 for a message outside the user's conversations; a receipt that
\* exists is returned; otherwise the INSERT follows.
MarkReadGet(p, u, id) ==
    /\ pc[p] = "idle"
    /\ IF id \notin {m.id : m \in VisibleMessages(u)}
       THEN /\ last' = Response("mark_read", "404")
            /\ UNCHANGED <<pc, req>>
       ELSE IF HasReceipt(id, u)
       THEN /\ last' = Response("mark_read", "200")
            /\ UNCHANGED <<pc, req>>
       ELSE /\ pc' = [pc EXCEPT ![p] = "mark_read_create"]
            /\ req' = [req EXCEPT ![p] =
                          [Idle EXCEPT !.op = "mark_read", !.user = u, !.message = id]]
            /\ UNCHANGED last
    /\ UNCHANGED <<signals_connected, now, conversations, participants, messages,
                   next_message_id, receipts, history, notifications>>

\* get_or_create after its get found nothing: the INSERT, and on IntegrityError
\* a second get, whose miss re-raises the error.
MarkReadCreate(p) ==
    /\ pc[p] = "mark_read_create"
    /\ LET u == req[p].user
           row == ReceiptRow(req[p].message, u, MarkReadDefault)
           after == InsertReceipts({row})
       IN  /\ receipts' = after
           /\ last' = Response("mark_read",
                          IF InsertAccepted({row}) \/ HasReceipt(row.message, u)
                          THEN "200" ELSE "500 IntegrityError")
    /\ pc' = [pc EXCEPT ![p] = "idle"]
    /\ req' = [req EXCEPT ![p] = Idle]
    /\ UNCHANGED <<signals_connected, now, conversations, participants, messages,
                   next_message_id, history, notifications>>

\* ConversationViewSet.mark_all_read, to the query of its for loop: get_object
\* answers 404 outside the user's conversations; the loop's query yields the
\* unread messages of the conversation.
MarkAllReadQuery(p, u, c) ==
    /\ pc[p] = "idle"
    /\ IF c \notin UserConversations(u)
       THEN /\ last' = Response("mark_all_read", "404")
            /\ UNCHANGED <<pc, req>>
       ELSE /\ pc' = [pc EXCEPT ![p] = "mark_all_insert"]
            /\ req' = [req EXCEPT ![p] =
                          [Idle EXCEPT !.op = "mark_all_read", !.user = u,
                                       !.conversation = c,
                                       !.to_create = {m.id : m \in UnreadIn(c, u)}]]
            /\ UNCHANGED last
    /\ UNCHANGED <<signals_connected, now, conversations, participants, messages,
                   next_message_id, receipts, history, notifications>>

\* The receipts a bulk marker builds: MessageReadReceipt(message, user), whose
\* read_at is the field's default, timezone.now().
ReceiptsToCreate(p) == {ReceiptRow(id, req[p].user, now) : id \in req[p].to_create}

\* MessageReadReceipt.objects.bulk_create(receipts_to_create) and the response
\* of mark_all_read; marked_count is len(receipts_to_create).
MarkAllReadInsert(p) ==
    /\ pc[p] = "mark_all_insert"
    /\ LET u == req[p].user
           rows == ReceiptsToCreate(p)
           ok == InsertAccepted(rows)
           after == InsertReceipts(rows)
       IN  /\ receipts' = after
           /\ last' = MarkResponse("mark_all_read",
                          IF ok THEN "200" ELSE "500 IntegrityError",
                          IF ok THEN Cardinality(req[p].to_create) ELSE NULL)
    /\ pc' = [pc EXCEPT ![p] = "idle"]
    /\ req' = [req EXCEPT ![p] = Idle]
    /\ UNCHANGED <<signals_connected, now, conversations, participants, messages,
                   next_message_id, history, notifications>>

\* MessageViewSet.mark_multiple_read with BulkMessageReadSerializer, to the
\* query of the for loop: Message.objects.filter(message_id__in=message_ids).
MarkMultipleFetch(p, u, ids) ==
    /\ pc[p] = "idle"
    /\ IF ids = {}
       THEN /\ last' = Response("mark_multiple_read", "400")
            /\ UNCHANGED <<pc, req>>
       ELSE /\ pc' = [pc EXCEPT ![p] = "mark_multiple_check"]
            /\ req' = [req EXCEPT ![p] =
                          [Idle EXCEPT !.op = "mark_multiple_read", !.user = u,
                                       !.pending = {m.id : m \in messages} \cap ids]]
            /\ UNCHANGED last
    /\ UNCHANGED <<signals_connected, now, conversations, participants, messages,
                   next_message_id, receipts, history, notifications>>

\* One pass of the loop body, newest message first: the exists() query, and
\* the append when no receipt exists.
MarkMultipleCheck(p) ==
    /\ pc[p] = "mark_multiple_check"
    /\ req[p].pending # {}
    /\ LET id == CHOOSE x \in req[p].pending : \A y \in req[p].pending : y <= x
       IN  req' = [req EXCEPT ![p].pending = @ \ {id},
                              ![p].to_create =
                                  IF HasReceipt(id, req[p].user) THEN @ ELSE @ \cup {id}]
    /\ UNCHANGED <<signals_connected, now, conversations, participants, messages,
                   next_message_id, receipts, history, notifications, pc, last>>

\* bulk_create after the loop, and the response of mark_multiple_read.
MarkMultipleInsert(p) ==
    /\ pc[p] = "mark_multiple_check"
    /\ req[p].pending = {}
    /\ LET u == req[p].user
           rows == ReceiptsToCreate(p)
           ok == InsertAccepted(rows)
           after == InsertReceipts(rows)
       IN  /\ receipts' = after
           /\ last' = MarkResponse("mark_multiple_read",
                          IF ok THEN "200" ELSE "500 IntegrityError",
                          IF ok THEN Cardinality(req[p].to_create) ELSE NULL)
    /\ pc' = [pc EXCEPT ![p] = "idle"]
    /\ req' = [req EXCEPT ![p] = Idle]
    /\ UNCHANGED <<signals_connected, now, conversations, participants, messages,
                   next_message_id, history, notifications>>

\* --------------------------------------------------------- specifications

\* The edits a client may request, as (partial, message_body, edited_at): PUT
\* with a body, PATCH with a body, PATCH of edited_at alone, PUT without a body.
UpdateInputs ==
    {<<FALSE, "again", ABSENT>>, <<TRUE, "again", ABSENT>>, <<TRUE, NoBody, now>>,
     <<FALSE, NoBody, ABSENT>>}

\* The ids a request may name: those of the stored messages and an unused one.
KnownIds == {m.id : m \in messages} \cup {next_message_id}

\* Membership and the message ledger: conversations are created, joined and
\* left, messages are sent and edited through both view sets.
Next ==
    \/ \E u \in Users, ids \in SUBSET Users :
           CreateConversation(u, ids) /\ UNCHANGED <<ghost, deletion, access, aside>>
    \/ \E u \in Users, c \in Convs : Leave(u, c) /\ UNCHANGED <<ghost, deletion, access, aside>>
    \/ \E u \in Users, c \in Convs, x \in Users \cup {NoUser, GhostUser} :
           AddParticipant(u, c, x) /\ UNCHANGED <<ghost, deletion, access, aside>>
    \/ /\ next_message_id <= MaxMsgs
       /\ \E u \in Users, c \in Convs : SendMessage(u, c, "hi") /\ UNCHANGED <<ghost, deletion, access, aside>>
    \/ \E u \in Users, id \in KnownIds, i \in UpdateInputs :
           Update(u, id, i[1], i[2], i[3]) /\ UNCHANGED <<ghost, deletion, access, aside>>
    \/ \E u \in Users, id \in KnownIds, i \in UpdateInputs :
           UpdateRoleAware(u, id, i[1], i[2], i[3]) /\ UNCHANGED <<ghost, deletion, access, aside>>

Spec == Init /\ [][Next]_vars

\* Read tracking: messages arrive while the requests that mark them read are
\* served two at a time.
NextRead ==
    \/ /\ next_message_id <= MaxMsgs
       /\ \E u \in Users, c \in Convs : SendMessage(u, c, "hi") /\ UNCHANGED <<ghost, deletion, access, aside>>
    \/ \E p \in Procs, u \in Users, id \in KnownIds :
           MarkReadGet(p, u, id) /\ UNCHANGED <<ghost, deletion, access, aside>>
    \/ \E p \in Procs : MarkReadCreate(p) /\ UNCHANGED <<ghost, deletion, access, aside>>
    \/ \E p \in Procs, u \in Users, c \in Convs :
           MarkAllReadQuery(p, u, c) /\ UNCHANGED <<ghost, deletion, access, aside>>
    \/ \E p \in Procs : MarkAllReadInsert(p) /\ UNCHANGED <<ghost, deletion, access, aside>>
    \/ \E p \in Procs, u \in Users, ids \in SUBSET KnownIds :
           MarkMultipleFetch(p, u, ids) /\ UNCHANGED <<ghost, deletion, access, aside>>
    \/ \E p \in Procs : MarkMultipleCheck(p) /\ UNCHANGED <<ghost, deletion, access, aside>>
    \/ \E p \in Procs : MarkMultipleInsert(p) /\ UNCHANGED <<ghost, deletion, access, aside>>

SpecRead == InitRead /\ [][NextRead]_vars

\* mark_all_read and mark_read against arriving messages, with the observer
\* taking notes on repeated calls.
NextWatched ==
    \/ /\ next_message_id <= MaxMsgs
       /\ \E u \in Users, c \in Convs :
              /\ SendMessage(u, c, "hi")
              /\ ghost' = IF last'.status = "201"
                          THEN NotedCreated(c) ELSE ghost
              /\ UNCHANGED <<deletion, access, aside>>
    \/ \E p \in Procs, u \in Users, id \in KnownIds :
           MarkReadGet(p, u, id) /\ UNCHANGED <<ghost, deletion, access, aside>>
    \/ \E p \in Procs : MarkReadCreate(p) /\ UNCHANGED <<ghost, deletion, access, aside>>
    \/ \E p \in Procs, u \in Users, c \in Convs :
           /\ MarkAllReadQuery(p, u, c)
           /\ ghost' = IF pc'[p] = "mark_all_insert" THEN NotedQuery(p, u, c) ELSE ghost
           /\ UNCHANGED <<deletion, access, aside>>
    \/ \E p \in Procs :
           /\ MarkAllReadInsert(p)
           /\ ghost' = NotedReturn(p, last'.status)
           /\ UNCHANGED <<deletion, access, aside>>

SpecWatched == InitRead /\ [][NextWatched]_vars

\* The same requests, with the observer taking notes on the messages a
\* mark_all_read missed.
NextLate ==
    \/ /\ next_message_id <= MaxMsgs
       /\ \E u \in Users, c \in Convs :
              /\ SendMessage(u, c, "hi")
              /\ ghost' = IF last'.status = "201"
                          THEN NotedMissed(c, next_message_id) ELSE ghost
              /\ UNCHANGED <<deletion, access, aside>>
    \/ \E p \in Procs, u \in Users, id \in KnownIds :
           MarkReadGet(p, u, id) /\ UNCHANGED <<ghost, deletion, access, aside>>
    \/ \E p \in Procs : MarkReadCreate(p) /\ UNCHANGED <<ghost, deletion, access, aside>>
    \/ \E p \in Procs, u \in Users, c \in Convs :
           MarkAllReadQuery(p, u, c) /\ UNCHANGED <<ghost, deletion, access, aside>>
    \/ \E p \in Procs : MarkAllReadInsert(p) /\ UNCHANGED <<ghost, deletion, access, aside>>

SpecLate == InitRead /\ [][NextLate]_vars

\* The database after one ConversationViewSet.create request, c1 holding u1
\* and u2, with either set of fields the MessageHistory model may declare.
InitCascade ==
    /\ signals_connected \in BOOLEAN
    /\ now = 0
    /\ conversations = {"c1"}
    /\ participants = {ParticipantRow("c1", "u1", NULL), ParticipantRow("c1", "u2", NULL)}
    /\ messages = {}
    /\ next_message_id = 1
    /\ receipts = EmptyBag
    /\ history = <<>>
    /\ notifications = <<>>
    /\ pc = [p \in Procs |-> "idle"]
    /\ req = [p \in Procs |-> Idle]
    /\ last = NoResponse
    /\ ghost = NothingNoted
    /\ users = Users
    /\ history_fields \in {HistoryCreateFields, HistoryCreateFields \cup {"user"}}
    /\ cascade = NoCascade
    /\ access = NoAccess
    /\ AsideIdle

\* Accounts are deleted while conversations are created and left and messages
\* are sent and marked read.  A request is made by a user that exists; the
\* requests are served one at a time, and a deletion runs in one transaction
\* between two of them.
NextCascade ==
    \/ /\ cascade.pc = "idle"
       /\ \E u \in users, ids \in SUBSET users :
              CreateConversation(u, ids) /\ UNCHANGED <<ghost, deletion, access, aside>>
    \/ /\ cascade.pc = "idle"
       /\ \E u \in users, c \in Convs : Leave(u, c) /\ UNCHANGED <<ghost, deletion, access, aside>>
    \/ /\ cascade.pc = "idle"
       /\ next_message_id <= MaxMsgs
       /\ \E u \in users, c \in Convs :
              SendMessage(u, c, "hi") /\ UNCHANGED <<ghost, deletion, access, aside>>
    \/ /\ cascade.pc = "idle"
       /\ \E u \in users, c \in Convs :
              MarkAllReadQuery("p1", u, c) /\ UNCHANGED <<ghost, deletion, access, aside>>
    \/ MarkAllReadInsert("p1") /\ UNCHANGED <<ghost, deletion, access, aside>>
    \/ \E u \in Users : DeleteUser(u)
    \/ ReceiverStep
    \/ DeleteReturn

SpecCascade == InitCascade /\ [][NextCascade]_vars


\* Membership with the requests served two at a time: conversations are
\* created and left while add_participant requests overlap.
NextJoin ==
    \/ \E u \in Users, ids \in SUBSET Users :
           CreateConversation(u, ids) /\ UNCHANGED <<ghost, deletion, access, aside>>
    \/ \E u \in Users, c \in Convs :
           Leave(u, c) /\ UNCHANGED <<ghost, deletion, access, aside>>
    \/ \E p \in Procs, u \in Users, c \in Convs, x \in Users :
           AddParticipantCheck(p, u, c, x) /\ UNCHANGED <<ghost, deletion, access, aside>>
    \/ \E p \in Procs : AddParticipantCreate(p) /\ UNCHANGED <<ghost, deletion, access, aside>>

SpecJoin == Init /\ [][NextJoin]_vars

\* The message ledger with its DELETE requests: messages are sent, marked read
\* and destroyed, conversations are left and destroyed.
NextDestroy ==
    \/ /\ next_message_id <= MaxMsgs
       /\ \E u \in Users, c \in Convs :
              SendMessage(u, c, "hi") /\ UNCHANGED <<ghost, deletion, access, aside>>
    \/ \E u \in Users, c \in Convs : Leave(u, c) /\ UNCHANGED <<ghost, deletion, access, aside>>
    \/ \E u \in Users, c \in Convs :
           MarkAllReadQuery("p1", u, c) /\ UNCHANGED <<ghost, deletion, access, aside>>
    \/ MarkAllReadInsert("p1") /\ UNCHANGED <<ghost, deletion, access, aside>>
    \/ \E u \in Users, id \in KnownIds : Destroy(u, id) /\ UNCHANGED <<ghost, deletion, access, aside>>
    \/ \E u \in Users, id \in KnownIds :
           DestroyRoleAware(u, id) /\ UNCHANGED <<ghost, deletion, access, aside>>
    \/ \E u \in Users, c \in Convs :
           DestroyConversation(u, c) /\ UNCHANGED <<ghost, deletion, access, aside>>

SpecDestroy == InitRead /\ [][NextDestroy]_vars

\* A call access_nested_map(nested_map, path), result = nested_map done.
InitAccess ==
    /\ signals_connected = FALSE
    /\ now = 0
    /\ conversations = {}
    /\ participants = {}
    /\ messages = {}
    /\ next_message_id = 1
    /\ receipts = EmptyBag
    /\ history = <<>>
    /\ notifications = <<>>
    /\ pc = [p \in Procs |-> "idle"]
    /\ req = [p \in Procs |-> Idle]
    /\ last = NoResponse
    /\ ghost = NothingNoted
    /\ users = Users
    /\ history_fields = HistoryCreateFields
    /\ cascade = NoCascade
    /\ AsideIdle
    /\ \E nested_map \in NestedMaps, path \in Paths :
           access = [state |-> "running", nested_map |-> nested_map, path |-> path,
                     pos |-> 1, result |-> nested_map]

NextAccess ==
    \/ AccessStep
    \/ AccessReturn

SpecAccess == InitAccess /\ [][NextAccess]_vars

\* The accounts after createsuperuser: u1 holds the role admin, and nobody
\* else has registered.
InitAccounts ==
    /\ signals_connected \in BOOLEAN
    /\ now = 0
    /\ conversations = {}
    /\ participants = {}
    /\ messages = {}
    /\ next_message_id = 1
    /\ receipts = EmptyBag
    /\ history = <<>>
    /\ notifications = <<>>
    /\ pc = [p \in Procs |-> "idle"]
    /\ req = [p \in Procs |-> Idle]
    /\ last = NoResponse
    /\ ghost = NothingNoted
    /\ users = {"u1"}
    /\ history_fields = HistoryCreateFields
    /\ cascade = NoCascade
    /\ access = NoAccess
    /\ accounts = [NoAccounts EXCEPT !.role["u1"] = "admin"]
    /\ limiter = NoLimiter
    /\ retry = NoRetry
    /\ cache = NoCache
    /\ txn = NoTxn
    /\ pager = NoPager
    /\ ctx = NoCtx

\* Registration, the profile and the management of users.
NextAccounts ==
    \/ \E u \in Users, r \in RoleInputs : Register(u, r)
    \/ \E u \in Users, method \in Methods, r \in RoleInputs : UpdateProfile(u, method, r)
    \/ \E u \in Users, target \in Users, r \in RoleInputs : ChangeRole(u, target, r)
    \/ \E u \in Users, method \in Methods, target \in Users, r \in RoleInputs :
           ManageUser(u, method, target, r)
    \/ ReceiverStep
    \/ DeleteReturn

SpecAccounts == InitAccounts /\ [][NextAccounts]_vars

\* The database of InitRead with the users holding any roles.
InitRoles ==
    /\ signals_connected \in BOOLEAN
    /\ now = 0
    /\ conversations = {"c1", "c2"}
    /\ participants = {ParticipantRow("c1", "u1", NULL), ParticipantRow("c1", "u2", NULL),
                       ParticipantRow("c2", "u2", NULL)}
    /\ messages = {}
    /\ next_message_id = 1
    /\ receipts = EmptyBag
    /\ history = <<>>
    /\ notifications = <<>>
    /\ pc = [p \in Procs |-> "idle"]
    /\ req = [p \in Procs |-> Idle]
    /\ last = NoResponse
    /\ ghost = NothingNoted
    /\ users = Users
    /\ history_fields = HistoryCreateFields
    /\ cascade = NoCascade
    /\ access = NoAccess
    /\ \E role \in [Users -> Roles] : accounts = [NoAccounts EXCEPT !.role = role]
    /\ limiter = NoLimiter
    /\ retry = NoRetry
    /\ cache = NoCache
    /\ txn = NoTxn
    /\ pager = NoPager
    /\ ctx = NoCtx

\* Leaving conversations and adding participants under the role-aware view set.
NextRoles ==
    \/ \E u \in Users, c \in Convs : Leave(u, c) /\ UNCHANGED <<ghost, deletion, access, aside>>
    \/ \E u \in Users, c \in Convs, x \in Users \cup {NoUser, GhostUser} :
           AddParticipantRoleAware(u, c, x) /\ UNCHANGED <<ghost, deletion, access, aside>>

SpecRoles == InitRoles /\ [][NextRoles]_vars

\* The middleware in front of the workers, with nothing cached.
InitLimiter ==
    /\ signals_connected = FALSE
    /\ now = 0
    /\ conversations = {}
    /\ participants = {}
    /\ messages = {}
    /\ next_message_id = 1
    /\ receipts = EmptyBag
    /\ history = <<>>
    /\ notifications = <<>>
    /\ pc = [p \in Procs |-> "idle"]
    /\ req = [p \in Procs |-> Idle]
    /\ last = NoResponse
    /\ ghost = NothingNoted
    /\ users = Users
    /\ history_fields = HistoryCreateFields
    /\ cascade = NoCascade
    /\ access = NoAccess
    /\ AsideIdle

\* Requests pass the middleware in the workers while the clock advances.
NextLimiter ==
    \/ \E p \in Procs, request \in Requests : RateCheck(p, request)
    \/ \E p \in Procs : RateRecord(p)
    \/ \E p \in Procs : RateForward(p)
    \/ RateTick

SpecLimiter == InitLimiter /\ [][NextLimiter]_vars

\* A call of a function decorated with retry_on_failure(retries, delay,
\* backoff_factor) enters the wrapper.
InitRetry ==
    /\ signals_connected = FALSE
    /\ now = 0
    /\ conversations = {}
    /\ participants = {}
    /\ messages = {}
    /\ next_message_id = 1
    /\ receipts = EmptyBag
    /\ history = <<>>
    /\ notifications = <<>>
    /\ pc = [p \in Procs |-> "idle"]
    /\ req = [p \in Procs |-> Idle]
    /\ last = NoResponse
    /\ ghost = NothingNoted
    /\ users = Users
    /\ history_fields = HistoryCreateFields
    /\ cascade = NoCascade
    /\ access = NoAccess
    /\ accounts = NoAccounts
    /\ limiter = NoLimiter
    /\ \E retries \in RetriesInputs, delay \in DelayInputs, backoff_factor \in BackoffInputs :
           retry = [NoRetry EXCEPT !.state = "loop", !.retries = retries,
                                   !.backoff_factor = backoff_factor,
                                   !.current_delay = delay]
    /\ cache = NoCache
    /\ txn = NoTxn
    /\ pager = NoPager
    /\ ctx = NoCtx

NextRetry ==
    \/ RetryAttempt
    \/ RetrySleep
    \/ RetryExhausted

\* The interpreter keeps running the wrapper.
SpecRetry == InitRetry /\ [][NextRetry]_vars /\ WF_vars(NextRetry)

\* The module of the cached functions has been imported: query_cache = {}.
InitCache ==
    /\ signals_connected = FALSE
    /\ now = 0
    /\ conversations = {}
    /\ participants = {}
    /\ messages = {}
    /\ next_message_id = 1
    /\ receipts = EmptyBag
    /\ history = <<>>
    /\ notifications = <<>>
    /\ pc = [p \in Procs |-> "idle"]
    /\ req = [p \in Procs |-> Idle]
    /\ last = NoResponse
    /\ ghost = NothingNoted
    /\ users = Users
    /\ history_fields = HistoryCreateFields
    /\ cascade = NoCascade
    /\ access = NoAccess
    /\ AsideIdle

\* Calls of the cached functions, one after the other, while time passes.
NextCache ==
    \/ \E conn \in Conns, args \in PositionalArgs, kwargs \in KeywordArgs,
          succeeds \in BOOLEAN : CallCached(conn, args, kwargs, succeeds)
    \/ \E conn \in Conns, args \in PositionalArgs, kwargs \in KeywordArgs,
          succeeds \in BOOLEAN : CallCachedTtl(conn, args, kwargs, succeeds)
    \/ CacheTick

SpecCache == InitCache /\ [][NextCache]_vars

\* A call of a function under transactional enters the wrapper; the call's
\* arguments and what the function and the connection will do are fixed.
InitTxn ==
    /\ signals_connected = FALSE
    /\ now = 0
    /\ conversations = {}
    /\ participants = {}
    /\ messages = {}
    /\ next_message_id = 1
    /\ receipts = EmptyBag
    /\ history = <<>>
    /\ notifications = <<>>
    /\ pc = [p \in Procs |-> "idle"]
    /\ req = [p \in Procs |-> Idle]
    /\ last = NoResponse
    /\ ghost = NothingNoted
    /\ users = Users
    /\ history_fields = HistoryCreateFields
    /\ cascade = NoCascade
    /\ access = NoAccess
    /\ accounts = NoAccounts
    /\ limiter = NoLimiter
    /\ retry = NoRetry
    /\ cache = NoCache
    /\ \E args \in TxnArgs, writes \in TxnWrites, func \in Leavings, commit \in Leavings,
          rollback \in Leavings :
           txn = [NoTxn EXCEPT !.state = "entered", !.args = args, !.writes = writes,
                               !.func = func, !.commit = commit, !.rollback = rollback]
    /\ pager = NoPager
    /\ ctx = NoCtx

NextTxn ==
    \/ TxnEnter
    \/ TxnInvoke
    \/ TxnCommit
    \/ TxnRollback

SpecTxn == InitTxn /\ [][NextTxn]_vars

\* lazy_paginate(page_size) was called on a table of n rows: the generator
\* exists and has not run.
InitPager ==
    /\ signals_connected = FALSE
    /\ now = 0
    /\ conversations = {}
    /\ participants = {}
    /\ messages = {}
    /\ next_message_id = 1
    /\ receipts = EmptyBag
    /\ history = <<>>
    /\ notifications = <<>>
    /\ pc = [p \in Procs |-> "idle"]
    /\ req = [p \in Procs |-> Idle]
    /\ last = NoResponse
    /\ ghost = NothingNoted
    /\ users = Users
    /\ history_fields = HistoryCreateFields
    /\ cascade = NoCascade
    /\ access = NoAccess
    /\ accounts = NoAccounts
    /\ limiter = NoLimiter
    /\ retry = NoRetry
    /\ cache = NoCache
    /\ txn = NoTxn
    /\ \E page_size \in 0 .. MaxPageSize, n \in 0 .. MaxRows :
           pager = [NoPager EXCEPT !.state = "created", !.page_size = page_size,
                                   !.user_data = UserData(n)]
    /\ ctx = NoCtx

NextPager == PagerNext

SpecPager == InitPager /\ [][NextPager]_vars

\* A with statement on a DatabaseConnection or an ExecuteQuery begins; how
\* the block and the calls on sqlite3 will leave is fixed.
InitCtx ==
    /\ signals_connected = FALSE
    /\ now = 0
    /\ conversations = {}
    /\ participants = {}
    /\ messages = {}
    /\ next_message_id = 1
    /\ receipts = EmptyBag
    /\ history = <<>>
    /\ notifications = <<>>
    /\ pc = [p \in Procs |-> "idle"]
    /\ req = [p \in Procs |-> Idle]
    /\ last = NoResponse
    /\ ghost = NothingNoted
    /\ users = Users
    /\ history_fields = HistoryCreateFields
    /\ cascade = NoCascade
    /\ access = NoAccess
    /\ accounts = NoAccounts
    /\ limiter = NoLimiter
    /\ retry = NoRetry
    /\ cache = NoCache
    /\ txn = NoTxn
    /\ pager = NoPager
    /\ \E manager \in Managers, block \in Leavings,
          calls \in [{"connect", "execute", "cursor_close", "commit", "rollback",
                      "close"} -> CallLeavings] :
           ctx = [NoCtx EXCEPT !.state = "with", !.manager = manager, !.block = block,
                               !.connect = calls["connect"],
                               !.execute = calls["execute"],
                               !.cursor_close = calls["cursor_close"],
                               !.commit = calls["commit"],
                               !.rollback = calls["rollback"],
                               !.close = calls["close"]]

NextCtx ==
    \/ CtxEnter
    \/ CtxBlock
    \/ CtxCloseCursor
    \/ CtxCommit
    \/ CtxRollback
    \/ CtxCloseConnection

SpecCtx == InitCtx /\ [][NextCtx]_vars

\* ------------------------------------------------------------ properties

\* The messages user u can see that hold no receipt row of u.
UnreadVisible(u) == {m \in VisibleMessages(u) : ReceiptCount(m.id, u) = 0}

\* C1: mark_read is idempotent: every mark_read(m, u) on a message u can see,
\* the first as well as a repeated one, succeeds (200) and leaves exactly one
\* receipt row of (m, u).
MarkReadIdempotent ==
    [][/\ \A p \in Procs, u \in Users, id \in MsgIds :
              (MarkReadCreate(p) /\ req[p].user = u /\ req[p].message = id) =>
                  /\ last'.status = "200"
                  /\ ReceiptCount(id, u)' = 1
       /\ \A p \in Procs, u \in Users, id \in MsgIds :
              (MarkReadGet(p, u, id) /\ HasReceipt(id, u)) =>
                  /\ last'.status = "200"
                  /\ ReceiptCount(id, u)' = 1]_vars

\* C2: in every state reached by mark_read, mark_all_read and
\* mark_multiple_read requests of any users, in any interleaving, a (message,
\* user) pair has at most one receipt row.
AtMostOneReceipt == \A m \in MsgIds, u \in Users : ReceiptCount(m, u) <= 1

\* A bulk insert met a receipt that another request had stored in the meantime
\* and was refused; the pair still has its one row.
DuplicateRefused ==
    /\ last.op \in {"mark_all_read", "mark_multiple_read"}
    /\ last.status = "500 IntegrityError"
    /\ \E m \in MsgIds, u \in Users : ReceiptCount(m, u) = 1

\* C3: the unread count reported for u, by stats and summed over the
\* per-conversation unread_count, is the number of messages u can see without
\* a receipt of u; the write of a mark_read(m, u) lowers it by exactly one when
\* m was unread for u, and a mark_read of a message already read leaves it.
UnreadCountFollowsMarkRead ==
    [][/\ \A u \in Users :
              /\ StatsUnreadMessages(u) = Cardinality(UnreadVisible(u))
              /\ \A c \in UserConversations(u) :
                     get_unread_count(c, u) =
                         Cardinality({m \in UnreadVisible(u) : m.conversation = c})
       /\ \A p \in Procs, u \in Users, id \in MsgIds :
              (MarkReadCreate(p) /\ req[p].user = u /\ req[p].message = id
                   /\ ~HasReceipt(id, u)) =>
                  StatsUnreadMessages(u)' = StatsUnreadMessages(u) - 1
       /\ \A p \in Procs, u \in Users, id \in MsgIds :
              (MarkReadGet(p, u, id) /\ HasReceipt(id, u)) =>
                  StatsUnreadMessages(u)' = StatsUnreadMessages(u)]_vars

\* C4: mark_all_read(c, u) stores a receipt of u for exactly the messages of c
\* that had none when the unread set was computed, touches no other receipt,
\* and returns as marked_count the number of receipts it stored.
MarkAllReadCreatesSnapshot ==
    [][\A p \in Procs :
           MarkAllReadInsert(p) =>
               /\ receipts' = receipts (+) SetToBag(ReceiptsToCreate(p))
               /\ last'.marked_count = Cardinality(req[p].to_create)]_vars

\* C5: a mark_all_read(c, u) that follows a mark_all_read(c, u), with no
\* message created in c from the query of the first to the return of the
\* second, stores no receipt and returns marked_count 0.
SecondMarkAllReadMarksNone ==
    [][\A p \in Procs :
           (MarkAllReadInsert(p) /\ p \in ghost.repeat /\ p \in ghost.fresh) =>
               /\ receipts' = receipts
               /\ last' = MarkResponse("mark_all_read", "200", 0)]_vars

\* A second mark_all_read has returned 0 on a conversation whose message the
\* first had marked.
SecondMarkAllReadReturned ==
    /\ last = MarkResponse("mark_all_read", "200", 0)
    /\ \E x \in ghost.repeated :
           \E m \in messages : m.conversation = x[1] /\ HasReceipt(m.id, x[2])

\* C6: a mark_all_read(c, u) does not touch the receipts of a message that is
\* not in its unread set (so none created after the set was computed), and a
\* message it missed that way is marked by a later mark_read of u.
LaterMessageStaysMarkable ==
    [][\A p \in Procs, u \in Users, id \in MsgIds :
           /\ (MarkAllReadInsert(p) /\ req[p].user = u /\ id \notin req[p].to_create) =>
                  ReceiptCount(id, u)' = ReceiptCount(id, u)
           /\ (MarkReadCreate(p) /\ req[p].user = u /\ req[p].message = id
                   /\ <<id, u>> \in ghost.missed) =>
                  ReceiptCount(id, u)' = 1]_vars

\* C7: whichever way the bulk markers of one user interleave with each other
\* and with mark_read, the insert of a mark_all_read or mark_multiple_read
\* does not fail: it answers 200, and every message it was to mark holds
\* exactly one receipt of the user afterwards.
BulkInsertSkipsDuplicates ==
    [][\A p \in Procs, u \in Users :
           ((MarkAllReadInsert(p) \/ MarkMultipleInsert(p)) /\ req[p].user = u) =>
               /\ last'.status = "200"
               /\ \A id \in req[p].to_create : ReceiptCount(id, u)' = 1]_vars

\* C8: a send to conversation c by a user who has no row in c, open or closed,
\* fails: 403 when c exists, and no message row and no history row is written.
NonParticipantSendFails ==
    [][last'.op = "send" =>
           \A u \in Users, c \in Convs :
               (SendMessage(u, c, "hi") /\ ParticipantUnique(c, u)) =>
                   /\ messages' = messages
                   /\ history' = history
                   /\ last'.op = "send"
                   /\ last'.status = IF c \in conversations THEN "403" ELSE "400"]_vars

\* A send was refused although the conversation exists and has members.
NonParticipantRefused ==
    /\ last = Response("send", "403")
    /\ \E c \in conversations, u \in Users :
           ParticipantUnique(c, u) /\ ParticipantsOf(c) # {}

\* C9: a user whose row in c is closed (left, and not added again) cannot
\* send in c: the request fails and writes no message.
SendNeedsOpenMembership ==
    [][\A u \in Users, c \in Convs :
           (SendMessage(u, c, "hi") /\ ~ParticipantUnique(c, u) /\ OpenRows(c, u) = {}) =>
               /\ messages' = messages
               /\ last'.status # "201"]_vars

\* C10: a well-formed edit (PUT with a body, or PATCH) through either view
\* set, of a message the user can see but did not send, is answered 403 and
\* leaves the message row, body and edited_at, as it was.
NonSenderEditForbidden ==
    [][\A u \in Users, id \in MsgIds, i \in UpdateInputs :
           ((Update(u, id, i[1], i[2], i[3]) \/ UpdateRoleAware(u, id, i[1], i[2], i[3]))
               /\ (i[1] \/ i[2] # NoBody)
               /\ id \in {m.id : m \in VisibleMessages(u)}
               /\ MessageById(id).sender # u) =>
               /\ last'.status = "403"
               /\ messages' = messages]_vars

\* C11: after an edit of message m by its sender that is answered 200, the
\* stored row has the body of the request and its edited_at is the time of
\* the edit, no longer null.
EditStampsEditedAt ==
    [][\A u \in Users, id \in MsgIds, i \in UpdateInputs :
           ((Update(u, id, i[1], i[2], i[3]) \/ UpdateRoleAware(u, id, i[1], i[2], i[3]))
               /\ i[2] # NoBody
               /\ MessageExists(id)
               /\ MessageById(id).sender = u
               /\ last'.status = "200") =>
               /\ MessageById(id)'.body = i[2]
               /\ MessageById(id)'.edited_at = now
               /\ MessageById(id)'.edited_at # NULL]_vars

\* C12: every edit answered 200 appends exactly one history row, whose action
\* is "edited" and whose content is the content the edit writes.
EditAppendsHistory ==
    [][\A u \in Users, id \in MsgIds, i \in UpdateInputs :
           ((Update(u, id, i[1], i[2], i[3]) \/ UpdateRoleAware(u, id, i[1], i[2], i[3]))
               /\ last'.status = "200") =>
               /\ Len(history') = Len(history) + 1
               /\ history'[Len(history')].object_id = id
               /\ history'[Len(history')].action = "edited"
               /\ history'[Len(history')].current_message = MessageById(id)'.body]_vars

\* C13: a send that creates a message appends exactly one notification and
\* exactly one history row, whose action is "created", for that message; a
\* later save of the message appends no notification and no "created" row.
CreationNotifiesOnce ==
    [][/\ \A u \in Users, c \in Convs :
              (SendMessage(u, c, "hi") /\ messages' # messages) =>
                  /\ Len(notifications') = Len(notifications) + 1
                  /\ Len(history') = Len(history) + 1
                  /\ history'[Len(history')].object_id = next_message_id
                  /\ history'[Len(history')].action = "created"
       /\ \A u \in Users, id \in MsgIds, i \in UpdateInputs :
              (Update(u, id, i[1], i[2], i[3]) \/ UpdateRoleAware(u, id, i[1], i[2], i[3])) =>
                  /\ notifications' = notifications
                  /\ \A k \in DOMAIN history' :
                         k > Len(history) => history'[k].action # "created"]_vars

NotificationNamesSenderAndRecipient ==
    [][\A u \in Users, c \in Convs :
           (SendMessage(u, c, "hi") /\ messages' # messages
               /\ ParticipantsOf(c) \ {u} # {}) =>
               \E k \in DOMAIN notifications' :
                   /\ k > Len(notifications)
                   /\ notifications'[k].sender = u
                   /\ notifications'[k].receiver \in ParticipantsOf(c) \ {u}]_vars

\* Whether the tables db hold a row that names user u: a message sent to or
\* by u, a notification to or from u, a receipt of u, a participant row of u,
\* a history row attributed to u.
RowsOf(db, u) ==
    \/ \E m \in db.messages : m.sender = u \/ ReceiverOf(m) = u
    \/ \E i \in 1 .. Len(db.notifications) :
           db.notifications[i].sender = u \/ db.notifications[i].receiver = u
    \/ \E r \in DOMAIN db.receipts : r.user = u
    \/ \E r \in db.participants : r.user = u
    \/ \E i \in 1 .. Len(db.history) : db.history[i].edited_by = u

\* User.delete() is about to return successfully.
AboutToReturn ==
    /\ cascade.pc = "post_delete"
    /\ signals_connected => cascade.step > Len(ReceiverSteps)

SoleOpenParticipant(db, c, u) ==
    /\ c \in db.conversations
    /\ {r.user : r \in {x \in db.participants :
                           x.conversation = c /\ x.left_at = NULL}} = {u}

\* Whether a user other than u holds an open participant row of conversation c
\* in the tables db.
OtherOpenParticipant(db, c, u) ==
    /\ c \in db.conversations
    /\ \E r \in db.participants :
           r.conversation = c /\ r.left_at = NULL /\ r.user # u

\* C17: when User.delete() of user u returns with the receivers connected, the
\* conversations in which u held the only open participant row are gone; the
\* conversations with another open participant are kept with the messages of
\* the others and without a message of u.
DeletedUserPrunesConversations ==
    [][\A u \in Users, c \in Convs :
          (signals_connected /\ cascade.user = u /\ cascade.pc = "post_delete"
             /\ cascade'.pc = "idle" /\ last'.status = "204")
          => /\ SoleOpenParticipant(cascade.saved, c, u) => c \notin conversations'
             /\ OtherOpenParticipant(cascade.saved, c, u)
                    => /\ c \in conversations'
                       /\ \A m \in cascade.saved.messages :
                              (m.conversation = c /\ m.sender # u) => m \in messages'
                       /\ \A m \in messages' : m.conversation = c => m.sender # u]_vars

\* The statement clean_user_resources runs next, if it is running.
NextStatement ==
    IF cascade.pc = "post_delete" /\ signals_connected
          /\ cascade.step <= Len(ReceiverSteps)
    THEN ReceiverSteps[cascade.step] ELSE "none"

\* C18: when clean_user_resources comes to test its conversations for
\* emptiness, it has run the deletion of the user's participant rows and no
\* such row is left; when it comes to delete the MessageHistory rows, it has
\* run the deletions of the user's messages and no such message is left.
MembershipsBeforePruneMessagesBeforeHistory ==
    /\ NextStatement = "prune"
           => /\ "memberships" \in cascade.done
              /\ ~\E r \in participants : r.user = cascade.user
    /\ NextStatement = "history"
           => /\ {"messages_sent", "messages_received"} \subseteq cascade.done
              /\ ~\E m \in messages :
                     m.sender = cascade.user \/ ReceiverOf(m) = cascade.user

\* The receiver has come to the MessageHistory rows in the
\* deletion of a user who was a participant of a conversation.
ReceiverReachedHistory ==
    /\ NextStatement = "history"
    /\ ~cascade.stale
    /\ \E r \in cascade.saved.participants : r.user = cascade.user

HasOpenRow(c, x) ==
    \E r \in participants : r.conversation = c /\ r.user = x /\ r.left_at = NULL

\* C21: add_participant by a member of c, naming a user who holds an open
\* participant row of c, is answered 400 'User is already a participant' and
\* leaves the participant rows as they were.
AddOfOpenMemberRefused ==
    [][last'.op = "add_participant" =>
           \A u \in Users, c \in Convs, x \in Users :
               (AddParticipant(u, c, x) /\ c \in UserConversations(u) /\ HasOpenRow(c, x)) =>
                   /\ last' = Response("add_participant", "400 User is already a participant")
                   /\ participants' = participants]_vars

\* An add was refused because the user named is a participant, in a
\* conversation of two open members.
OpenMemberRefused ==
    /\ last = Response("add_participant", "400 User is already a participant")
    /\ \E c \in conversations : \A x \in Users : HasOpenRow(c, x)

\* C22: add_participant by a member of c, naming a user who holds no open
\* participant row of c, succeeds and leaves that user with exactly one open
\* row in c, also when the user was a participant before and has left.
AddAfterLeaveSucceeds ==
    [][\A u \in Users, c \in Convs, x \in Users :
           (AddParticipant(u, c, x) /\ c \in UserConversations(u) /\ ~HasOpenRow(c, x)) =>
               /\ last' = Response("add_participant", "200")
               /\ Cardinality(OpenRows(c, x))' = 1]_vars

\* The participant rows after the open row of user u in conversation c has
\* been closed at time t.
RowClosed(c, u, t) ==
    (participants \ {r \in participants : r.conversation = c /\ r.user = u})
        \cup {[conversation |-> c, user |-> u, left_at |-> t]}

RowsOfPair(c, x) == {r \in participants : r.conversation = c /\ r.user = x}

\* C24: whatever the interleaving of overlapping add_participant requests
\* with conversation creation and leave, a (conversation, user) pair never
\* holds two participant rows, hence never two open ones; an insert of
\* add_participant that finds a row of its pair, stored since its own test,
\* writes nothing and fails with IntegrityError.
AtMostOneOpenMembership ==
    [][/\ \A c \in Convs, x \in Users :
              /\ Cardinality(RowsOfPair(c, x))' <= 1
              /\ Cardinality(OpenRows(c, x))' <= 1
       /\ \A p \in Procs, c \in Convs, x \in Users :
              (AddParticipantCreate(p) /\ req[p].conversation = c
                 /\ req[p].user_to_add = x /\ RowsOfPair(c, x) # {})
              => /\ participants' = participants
                 /\ last' = Response("add_participant", "500 IntegrityError")]_vars

\* The insert of an add_participant was refused although no participant has
\* ever left: the row it met was stored by the request it raced with.
RacingAddRefused ==
    /\ last = Response("add_participant", "500 IntegrityError")
    /\ participants # {}
    /\ \A r \in participants : r.left_at = NULL

\* C25: outside a User.delete(), no step removes a message: every message
\* stored before a request is stored after it, whoever makes the request.
OnlyCascadeRemovesMessages ==
    [][(cascade.pc = "idle" /\ cascade'.pc = "idle")
       => \A m \in messages : \E n \in messages' : n.id = m.id]_vars

\* C26: no mark_read, mark_all_read or mark_multiple_read, repeated or
\* overlapping, changes a receipt that exists: every receipt row is there
\* after the step as before it, read_at included, and its pair has got no
\* other row.
ReceiptNeverMutated ==
    [][\A r \in BagToSet(receipts) :
           /\ CopiesIn(r, receipts') = CopiesIn(r, receipts)
           /\ \A q \in BagToSet(receipts') :
                  (q.message = r.message /\ q.user = r.user) => q.read_at = r.read_at]_vars

\* A mark_read was answered 200: get_or_create found the receipt of the pair,
\* which an earlier request had stored.
RepeatedMarkReadAnswered ==
    /\ last = Response("mark_read", "200")
    /\ \E r \in BagToSet(receipts) : r.read_at # NULL

\* C27: for every user u and every message m that u can see and did not
\* send, UnreadMessagesManager(u) reports m as unread exactly when no receipt
\* row of (m, u) exists, and its count is the number of those messages.
ManagerUnreadIsReceiptAbsence ==
    \A u \in Users :
        /\ \A m \in VisibleMessages(u) :
               m.sender # u =>
                   ((get_unread_messages(u).raised = "none"
                       /\ m \in get_unread_messages(u).rows)
                    <=> ~HasReceipt(m.id, u))
        /\ (\E m \in VisibleMessages(u) : m.sender # u)
               => manager_get_unread_count(u).count =
                      Cardinality({m \in VisibleMessages(u) :
                                      m.sender # u /\ ~HasReceipt(m.id, u)})

\* C28: for a user with an unread message, get_unread_by_conversation returns
\* groups that partition the user's unread messages by conversation: each
\* message is in the group of its conversation and in no other, no group is
\* empty, each count is the size of its group, and the counts add up to
\* get_unread_count.
UnreadGroupsPartition ==
    \A u \in Users :
        (\E m \in VisibleMessages(u) : m.sender # u /\ ~HasReceipt(m.id, u)) =>
            LET result == get_unread_by_conversation(u)
                groups == result.groups
                RECURSIVE Total(_)
                Total(S) == IF S = {} THEN 0
                            ELSE LET c == CHOOSE x \in S : TRUE
                                 IN  groups[c].count + Total(S \ {c})
            IN  /\ result.raised = "none"
                /\ \A m \in get_unread_messages(u).rows :
                       \A c \in DOMAIN groups :
                           m \in groups[c].messages <=> c = m.conversation
                /\ \A c \in DOMAIN groups :
                       /\ groups[c].messages # {}
                       /\ groups[c].count = Cardinality(groups[c].messages)
                /\ Total(DOMAIN groups) = manager_get_unread_count(u).count

\* Whether every key of the path is present along the path from the node.
RECURSIVE PathPresent(_, _)
PathPresent(node, path) ==
    \/ path = <<>>
    \/ /\ node.kind = "map"
       /\ Head(path) \in DOMAIN node.items
       /\ PathPresent(node.items[Head(path)], Tail(path))

\* The value reached from the node by indexing with each key of the path.
RECURSIVE ValueAt(_, _)
ValueAt(node, path) ==
    IF path = <<>> THEN node ELSE ValueAt(node.items[Head(path)], Tail(path))

\* C29: a call of access_nested_map whose path has all its keys present along
\* the path raises nothing, and what it returns is the value reached by
\* indexing with each key in turn, an inner map when the path stops at one.
AccessReturnsValueAtPath ==
    PathPresent(access.nested_map, access.path) =>
        /\ access.state \in {"none", "running", "returned"}
        /\ access.state = "returned"
               => access.result = ValueAt(access.nested_map, access.path)

\* A call with a path of two keys has returned the value under the second.
AccessReturnedNestedValue ==
    /\ access.state = "returned"
    /\ Len(access.path) = 2
    /\ access.result.kind = "value"

\* C30: every receipt row belongs to a user who holds a participant row, open
\* or closed, of the conversation of its message.
ReceiptOnlyOfParticipant ==
    \A r \in BagToSet(receipts) :
        \E m \in messages :
            m.id = r.message /\ r.user \in ParticipantsOf(m.conversation)

\* C31: the role of a user changes only through change_role called by a user
\* whose role is admin, and only to guest, host or admin; registration creates
\* a guest, and a request on one's own profile leaves one's role as it was.
RoleChangesOnlyByAdmin ==
    [][\A u \in Users :
           /\ (u \in users /\ u \in users' /\ accounts'.role[u] # accounts.role[u])
                  => /\ \E a \in users, r \in RoleInputs :
                            ChangeRole(a, u, r) /\ accounts.role[a] = "admin"
                     /\ accounts'.role[u] \in Roles
           /\ (\E r \in RoleInputs : Register(u, r)) /\ u \in users'
                  => accounts'.role[u] = "guest"
           /\ (\E method \in Methods, r \in RoleInputs : UpdateProfile(u, method, r))
                  => accounts'.role[u] = accounts.role[u]]_vars

\* C33: under CanManageUsers a user always has access to the own record:
\* whatever the role and the method, a request of user u on the record of u
\* through UserManagementViewSet is not answered 403.
OwnRecordAlwaysPermitted ==
    [][\A u \in Users, method \in Methods, r \in RoleInputs :
           ManageUser(u, method, u, r) => accounts'.last.status # "403"]_vars

\* C32: in the role-aware ConversationViewSet add_participant is permitted to
\* a participant of the conversation and to a user whose role is admin or
\* host, whatever conversation it is: such a request that names a user without
\* a row in the conversation adds the user (200); a requester who is neither
\* is answered 403.
RoleAwareAddPermitted ==
    [][\A u \in Users, c \in Convs, x \in Users :
           AddParticipantRoleAware(u, c, x) /\ c \in conversations =>
               IF u \in ParticipantsOf(c) \/ accounts.role[u] \in {"admin", "host"}
               THEN RowsOfPair(c, x) = {} =>
                        /\ last'.status = "200"
                        /\ ParticipantRow(c, x, NULL) \in participants'
               ELSE last'.status = "403"]_vars

\* The requests of the address that reached the handler and were made in the
\* time_window seconds from t on.
ServedWithin(ip, t) ==
    {i \in DOMAIN limiter.served[ip] :
        t <= limiter.served[ip][i] /\ limiter.served[ip][i] < t + time_window}

\* C34: the middleware passes at most rate_limit requests of a client address
\* on to the handler within any time_window seconds, also when requests of
\* the address are served at the same time.
AtMostFivePerWindow ==
    \A ip \in ClientIps : \A i \in DOMAIN limiter.served[ip] :
        Cardinality(ServedWithin(ip, limiter.served[ip][i])) <= rate_limit

\* The wrapper of retry_on_failure has returned or raised.
RetryFinished == retry.state \in {"returned", "raised", "raised TypeError"}

\* What holds of a call under retry_on_failure(retries = n) at any moment.
RetryBounded ==
    /\ retry.invocations <= retry.retries + 1
    /\ retry.state = "returned"
           => /\ retry.result = retry.invocations
              /\ Len(retry.slept) = retry.invocations - 1
    /\ retry.state = "raised"
           => /\ retry.invocations = retry.retries + 1
              /\ retry.exception = retry.invocations
              /\ Len(retry.slept) = retry.retries
    /\ retry.state = "sleep" => retry.invocations <= retry.retries
    /\ retry.retries >= 0 => retry.state # "raised TypeError"

\* C35: a call under retry_on_failure(retries = n) terminates and invokes the
\* wrapped function at most n + 1 times: it returns the result of the first
\* invocation that succeeds and invokes no more, it raises the exception of
\* the last invocation when all n + 1 raise, and it sleeps between two
\* invocations only, never after the last failure; once it has returned or
\* raised nothing more happens.
RetryTerminatesWithinBound ==
    /\ []RetryBounded
    /\ [][RetryFinished => UNCHANGED retry]_vars
    /\ <>RetryFinished

\* All of two retries were used up and the third invocation raised.
RetryGaveUp ==
    /\ retry.state = "raised"
    /\ retry.retries = 2
    /\ Len(retry.slept) = 2

\* The executions of the function that returned when called with the
\* arguments.
StoredFor(function, args, kwargs) ==
    {x \in cache.stored : x.function = function /\ x.args = args /\ x.kwargs = kwargs}

TtlNeverReturnsExpired ==
    [][\A conn \in Conns, args \in PositionalArgs, kwargs \in KeywordArgs,
          succeeds \in BOOLEAN :
           CallCachedTtl(conn, args, kwargs, succeeds) =>
               LET young == {x \in StoredFor(TtlFunction, args, kwargs) :
                                cache.clock - x.at < ttl_seconds}
                   key == _generate_cache_key(TtlFunction, <<conn>> \o args, kwargs)
               IN  /\ cache'.returned.state = "hit"
                          => /\ \E x \in young : cache'.returned.result = x.result
                             /\ cache'.executed = cache.executed
                   /\ young = {}
                          => /\ cache'.executed = cache.executed + 1
                             /\ succeeds =>
                                    \E e \in cache'.query_cache :
                                        /\ e.key = key
                                        /\ e.result = cache'.executed
                                        /\ e.timestamp = cache.clock
                             /\ ~succeeds =>
                                    ~\E e \in cache'.query_cache : e.key = key]_vars

\* An entry stored at time 0 was found expired at time 60 and replaced.
TtlEntryReplaced ==
    /\ cache.returned.state = "miss"
    /\ cache.returned.function = TtlFunction
    /\ cache.clock = ttl_seconds
    /\ \E x \in StoredFor(TtlFunction, cache.returned.args, cache.returned.kwargs) :
           x.at = 0

\* The call under transactional is over.
TxnDone == txn.state = "done"

\* C38 as stated: commit is issued exactly when the wrapped function returned
\* and rollback exactly when it raised, never both; a call without a
\* positional connection raises ValueError without invoking the function.
CommitXorRollback ==
    TxnDone =>
        /\ txn.args = <<>> => txn.outcome = "raised ValueError" /\ txn.invoked = 0
        /\ txn.commits = 1 <=> (txn.invoked = 1 /\ txn.func = "returns")
        /\ txn.rollbacks = 1 <=> (txn.invoked = 1 /\ txn.func # "returns")
        /\ ~(txn.commits > 0 /\ txn.rollbacks > 0)
        /\ txn.outcome = "returned" <=> (txn.invoked = 1 /\ txn.func = "returns")

\* C38 as the wrapper has it: commit is issued exactly when the wrapped
\* function returned, and the result is returned exactly when the commit
\* returned as well; rollback is issued exactly when the function or the
\* commit raised an Exception; an exception that is no Exception passes with
\* neither; without a positional connection the call raises ValueError and
\* the function is not invoked.  Whatever was written is in the database
\* after a return, and is not after a rollback that returned.
CommitThenRollbackOnError ==
    /\ txn.invoked <= 1 /\ txn.commits <= 1 /\ txn.rollbacks <= 1
    /\ TxnDone =>
        /\ txn.args = <<>> <=> txn.outcome = "raised ValueError"
        /\ txn.args = <<>> => txn.invoked = 0 /\ txn.commits = 0 /\ txn.rollbacks = 0
        /\ txn.args # <<>> => txn.invoked = 1
        /\ txn.commits = 1 <=> (txn.invoked = 1 /\ txn.func = "returns")
        /\ txn.outcome = "returned" <=> (txn.commits = 1 /\ txn.commit = "returns")
        /\ txn.rollbacks = 1 <=>
               /\ txn.invoked = 1
               /\ \/ txn.func = "Exception"
                  \/ txn.func = "returns" /\ txn.commit = "Exception"
        /\ (txn.outcome = "returned" /\ txn.writes # NULL) => txn.data = txn.writes
        /\ (txn.rollbacks = 1 /\ txn.rollback = "returns")
               => txn.data = 0 /\ txn.pending = NULL

\* The function returned, the commit raised, and the wrapper rolled back.
RolledBackAfterFailedCommit ==
    /\ TxnDone
    /\ txn.func = "returns"
    /\ txn.commits = 1
    /\ txn.rollbacks = 1
    /\ txn.raised_by = "commit"

\* C39: for page_size >= 1 and an unchanging table, lazy_paginate fetches the
\* pages at the offsets 0, page_size, 2 * page_size, ..., one for each page
\* the consumer asks for; every page it yields is non-empty, and when it has
\* ended the pages it yielded hold every row of the table once, in the order
\* of the table.
PagesCoverTable ==
    pager.page_size >= 1 =>
        /\ Len(pager.fetched) = pager.asked
        /\ \A i \in DOMAIN pager.fetched : pager.fetched[i] = (i - 1) * pager.page_size
        /\ \A i \in DOMAIN pager.yielded : pager.yielded[i] # <<>>
        /\ pager.state = "finished" => pager.rows = pager.user_data

\* C40: when the with-block of a DatabaseConnection or an ExecuteQuery has
\* been left, the cursor and the connection are closed in every case, the
\* transaction was committed exactly when the block raised nothing and
\* rolled back otherwise, and an exception of the block goes on to the
\* caller.
ExitClosesAndSettles ==
    (ctx.state = "done" /\ ctx.entered) =>
        /\ ~ctx.cursor_open
        /\ ~ctx.connection_open
        /\ ctx.commits = 1 <=> ctx.block = "returns"
        /\ ctx.rollbacks = 1 <=> ctx.block # "returns"
        /\ ctx.block # "returns" => ctx.propagated = "block"

====
